---- MODULE Spec2Model ----
(***************************************************************************)
(* FlowDoc plugin, main thread (src/src/main/main.ts) and its canvas       *)
(* helpers.  The main thread is one cooperative event loop: a handler runs *)
(* until its next await, and other commands are handled while it is        *)
(* suspended.  Each handler invocation is a frame in inv; every action of  *)
(* this module is one run of a handler from one suspension point to the    *)
(* next.                                                                   *)
(*                                                                         *)
(* Strings the code trims or tests are tuples of words (" " is blank).     *)
(***************************************************************************)
EXTENDS Naturals, Integers, Sequences, FiniteSets, TLC

\* ------------------------------------------------------------------ bounds
\* invocation frames that may be in flight at once
MaxActs == 2
\* commands handled in one run of the session specification
MaxCmds == 2
\* largest selection of the batch specification
MaxScreens == 7
\* longest list of missing screens of the regeneration specification
MaxItems == 2
\* regeneration commands in one run of the regeneration specification
MaxRuns == 1
\* longest free-form document of the sections specification, in lines
MaxLines == 3

\* ------------------------------------------------------- program constants
BATCH_SIZE == 5
BATCH_DELAY_MS == 2000

Acts == 1..MaxActs

DEFAULT_MODELS(prov) ==
  CASE prov = "anthropic" -> "claude-sonnet-4-20250514"
    [] prov = "openai"    -> "gpt-4o"
    [] OTHER              -> "gemini-2.0-flash"

\* ------------------------------------------------------------------ strings
Blank == " "

RECURSIVE TrimStart(_)
TrimStart(s) ==
  IF s # <<>> /\ Head(s) = Blank THEN TrimStart(Tail(s)) ELSE s

RECURSIVE TrimEnd(_)
TrimEnd(s) ==
  IF s # <<>> /\ s[Len(s)] = Blank THEN TrimEnd(SubSeq(s, 1, Len(s) - 1)) ELSE s

\* String.prototype.trim
Trim(s) == TrimEnd(TrimStart(s))

\* a || b on strings: the empty string is the only falsy one
OrElse(a, b) == IF a # <<>> THEN a ELSE b

Min(x, y) == IF x <= y THEN x ELSE y

\* ------------------------------------------------------------------- state
VARIABLES
  apiKey,             \* module state: let apiKey
  projectContext,     \* module state: let projectContext
  currentProvider,    \* module state: let currentProvider
  cachedDesignSystem, \* <<>> is null, else the nodes the snapshot was taken of
  cachedFrameData,    \* <<>> is null, else the frames described
  cachedNodes,        \* nodes of the most recent scan
  cachedScreenshots,  \* names of the frames captured
  selection,          \* figma.currentPage.selection, frames and components
  selectionCount,     \* count of the last selection-changed notification
  inv,                \* handler invocations: one frame per slot
  hist,               \* the stored session around a run of overlapping actions
  ack,                \* the notification of the last set-api-key command
  ncmd,               \* commands handled so far
  call                \* a function applied on its own: its argument and result

vars == <<apiKey, projectContext, currentProvider, cachedDesignSystem,
          cachedFrameData, cachedNodes, cachedScreenshots, selection,
          selectionCount, inv, hist, ack, ncmd, call>>

session == <<apiKey, projectContext, currentProvider>>
caches == <<cachedDesignSystem, cachedFrameData, cachedNodes, cachedScreenshots>>

Stored == [key |-> apiKey, ctx |-> projectContext, prov |-> currentProvider]

IdleFrame ==
  [kind |-> "none", pc |-> "idle", rejected |-> FALSE, threw |-> FALSE,
   key |-> <<>>, ctx |-> <<>>, prov |-> "anthropic", msgModel |-> "", model |-> "",
   prevKey |-> <<>>, prevCtx |-> <<>>, prevProv |-> "anthropic",
   nodes |-> <<>>, frameDataList |-> <<>>, designSystem |-> <<>>,
   i |-> 0, pending |-> {}, arrival |-> <<>>, batchResults |-> <<>>,
   docs |-> <<>>, k |-> 0, createdCards |-> <<>>, groups |-> <<>>,
   batches |-> <<>>, pauses |-> <<>>,
   flowText |-> <<>>, missingScreens |-> <<>>, flowRendered |-> <<>>,
   missingRendered |-> <<>>,
   items |-> <<>>, screenshots |-> <<>>, spec |-> "", createdFrames |-> <<>>,
   validated |-> <<>>, skipped |-> <<>>, docFrame |-> FALSE,
   sent |-> <<>>, reqs |-> <<>>, got |-> <<>>, calls |-> <<>>]

\* no function is applied on its own
\* the network side of a call: the requests issued, the response received,
\* the error thrown and the message shown for it (<<>> while there is none)
NoNet == [fetched |-> <<>>, response |-> <<>>, error |-> <<>>, shown |-> <<>>]

NoCall ==
  [fn |-> "none", arg |-> <<>>, out |-> <<>>, returned |-> FALSE, threw |-> FALSE,
   net |-> NoNet]

NoHist ==
  [base |-> [key |-> <<>>, ctx |-> <<>>, prov |-> "anthropic"],
   end |-> [key |-> <<>>, ctx |-> <<>>, prov |-> "anthropic"],
   started |-> 0, setKey |-> FALSE, other |-> FALSE, closed |-> FALSE]

InFlight(a) == inv[a].pc \notin {"idle", "done"}
\* a command is handled in the first frame that is not in flight
Free(a) == ~InFlight(a) /\ \A b \in Acts : b < a => InFlight(b)
AnyInFlight == \E a \in Acts : InFlight(a)

\* ----------------------------------------------- history of the session
\* An action starts: a run of overlapping actions begins when none is in
\* flight, and `base` is the stored session before the action overwrites it.
HistOnStart ==
  IF AnyInFlight
    THEN [hist EXCEPT !.started = Min(hist.started + 1, 2)]
    ELSE [NoHist EXCEPT !.base = Stored, !.end = Stored, !.started = 1]

\* Another command (a rejected command, a set-api-key) is handled.
HistOnOther(stored) ==
  IF AnyInFlight
    THEN [hist EXCEPT !.other = TRUE, !.setKey = hist.setKey \/ stored]
    ELSE hist

\* Action a finishes leaving `after` as the stored session.
HistOnFinish(a, after) ==
  IF \E b \in Acts \ {a} : InFlight(b)
    THEN hist
    ELSE [hist EXCEPT !.closed = TRUE, !.end = after]

\* ------------------------------------------------------- UI notifications
\* sendToUI / sendProgress / sendError, appended to the sending frame
Send(f, types) == [f EXCEPT !.sent = f.sent \o types]

\* a vendor response (or the failure of the request) reaches the handler
Got(f, outcome) == [f EXCEPT !.got = Append(f.got, outcome)]

\* what the regeneration loop got for a request: the failure, or whether the
\* text parsed into a visual spec
Heard(outcome, visualSpec) ==
  IF outcome # "ok" THEN outcome
  ELSE IF visualSpec = "" THEN "ok:unparsed" ELSE "ok:parsed"

\* the handler calls a canvas function and awaits it
Call(f, fn) == [f EXCEPT !.calls = Append(f.calls, fn)]

\* ------------------------------------------------------------ frame data
\* extractFrameData keeps the frames and components, in selection order
extractFrameData(nodes) == [n \in 1..Len(nodes) |-> [id |-> nodes[n], name |-> nodes[n]]]

\* extractDesignSystem never throws; the snapshot is a function of the nodes
extractDesignSystem(nodes) == nodes

\* ------------------------------------------------------- vendor response
\* A vendor text is a tuple of words.  Blank is white space, "w" any prose,
\* DELIM the literal delimiter line, "{" and "}" braces, FENCE a code-fence mark,
\* and a member word the text of one JSON member.
DELIM == "---EDGE-CASES---"
FENCE == "fence"

Severities == {"high", "medium", "low"}

Item(name, hasSev, sev, hasComp) ==
  [name |-> name, hasSeverity |-> hasSev, severity |-> sev,
   hasComponents |-> hasComp, reference_screen |-> "ref"]

\* the missing_screens member words and what JSON.parse makes of them
MemberWords == {"ms:[]", "ms:[high]", "ms:[critical]", "ms:[medium,low]",
                "ms:[no-severity]", "ms:[no-components]", "ms:7", "other:1"}

MissingScreensOf(word) ==
  CASE word = "ms:[]"              -> [isArray |-> TRUE, items |-> <<>>]
    [] word = "ms:[high]"          -> [isArray |-> TRUE,
                                       items |-> <<Item("A", TRUE, "high", TRUE)>>]
    [] word = "ms:[critical]"      -> [isArray |-> TRUE,
                                       items |-> <<Item("B", TRUE, "critical", TRUE)>>]
    [] word = "ms:[medium,low]"    -> [isArray |-> TRUE,
                                       items |-> <<Item("C", TRUE, "medium", TRUE),
                                                   Item("D", TRUE, "low", TRUE)>>]
    [] word = "ms:[no-severity]"   -> [isArray |-> TRUE,
                                       items |-> <<Item("E", FALSE, "", TRUE)>>]
    [] word = "ms:[no-components]" -> [isArray |-> TRUE,
                                       items |-> <<Item("F", TRUE, "low", FALSE)>>]
    [] OTHER                       -> [isArray |-> FALSE, items |-> <<>>]

\* index of the first / last occurrence of word x in s, 0 when absent
RECURSIVE IndexFrom(_, _, _)
IndexFrom(s, x, n) ==
  IF n > Len(s) THEN 0 ELSE IF s[n] = x THEN n ELSE IndexFrom(s, x, n + 1)

IndexOf(s, x) == IndexFrom(s, x, 1)

RECURSIVE LastIndexFrom(_, _, _)
LastIndexFrom(s, x, n) ==
  IF n = 0 THEN 0 ELSE IF s[n] = x THEN n ELSE LastIndexFrom(s, x, n - 1)

LastIndexOf(s, x) == LastIndexFrom(s, x, Len(s))

\* a split at the last occurrence of sep only: the property of the flow text
\* is checked against it
SplitAtLast(s, sep) ==
  LET n == LastIndexOf(s, sep) IN
  IF n = 0 THEN <<s>> ELSE <<SubSeq(s, 1, n - 1), SubSeq(s, n + 1, Len(s))>>

\* String.prototype.split(sep): the parts between the occurrences of sep
RECURSIVE Split(_, _)
Split(s, sep) ==
  LET n == IndexOf(s, sep) IN
  IF n = 0 THEN <<s>>
  ELSE <<SubSeq(s, 1, n - 1)>> \o Split(SubSeq(s, n + 1, Len(s)), sep)

\* a match that stops at the first "}": the property of the missing-screens
\* list is checked against it
BraceMatchShortest(s) ==
  LET lo == IndexOf(s, "{")
      hi == IndexOf(s, "}") IN
  IF lo # 0 /\ hi > lo THEN [found |-> TRUE, text |-> SubSeq(s, lo, hi)]
  ELSE [found |-> FALSE, text |-> <<>>]

\* the greedy brace match of String.match: from the first "{" to the last "}"
BraceMatch(s) ==
  LET lo == IndexOf(s, "{")
      hi == LastIndexOf(s, "}") IN
  IF lo # 0 /\ hi > lo THEN [found |-> TRUE, text |-> SubSeq(s, lo, hi)]
  ELSE [found |-> FALSE, text |-> <<>>]

RECURSIVE DropBlanks(_)
DropBlanks(s) ==
  IF s = <<>> THEN <<>>
  ELSE IF Head(s) = Blank THEN DropBlanks(Tail(s))
  ELSE <<Head(s)>> \o DropBlanks(Tail(s))

\* the member text of a visual screen spec: name, width and height as the
\* vendor wrote them
SpecWords == {"spec:ok", "spec:no-name", "spec:empty-name", "spec:width-string",
              "spec:no-height"}

\* parsed.name alone
SpecNamed(word) == word \notin {"spec:no-name", "spec:empty-name"}

\* parsed.name && typeof parsed.width === 'number' && typeof parsed.height === 'number'
SpecAccepted(word) == word = "spec:ok"

JsonMembers == MemberWords \cup SpecWords

\* JSON.parse of an object text: white space is insignificant, the text is
\* an object of no member or of one member; anything else is a SyntaxError.
JsonParse(s) ==
  LET t == DropBlanks(s) IN
  IF t = <<"{", "}">> THEN [ok |-> TRUE, member |-> "other:1"]
  ELSE IF Len(t) = 3 /\ t[1] = "{" /\ t[3] = "}" /\ t[2] \in JsonMembers
    THEN [ok |-> TRUE, member |-> t[2]]
  ELSE [ok |-> FALSE, member |-> ""]

\* formatEdgeCaseMarkdown reads item.severity.charAt and
\* item.components_needed.length: a TypeError when either is undefined
FormatThrows(items) ==
  \E n \in 1..Len(items) : ~items[n].hasSeverity \/ ~items[n].hasComponents

SeverityIcon(sev) ==
  CASE sev = "high" -> "red" [] sev = "medium" -> "yellow" [] sev = "low" -> "green"
    [] OTHER -> "white"

formatEdgeCaseMarkdown(items) ==
  [n \in 1..Len(items) |->
     [name |-> items[n].name, icon |-> SeverityIcon(items[n].severity),
      severity |-> items[n].severity]]

\* the text processing of runScanFlowWithEdgeCases, after its request
ParseFlowResponse(text) ==
  LET edgeSplit == Split(text, DELIM)
      flowText  == Trim(edgeSplit[1])
      edgePart  == IF Len(edgeSplit) >= 2 THEN Trim(edgeSplit[2]) ELSE <<>>
      jsonMatch == BraceMatch(edgePart)
      parsed    == JsonParse(jsonMatch.text)
      value     == MissingScreensOf(parsed.member)
      missing   == IF edgePart # <<>> /\ jsonMatch.found /\ parsed.ok /\ value.isArray
                     THEN value.items ELSE <<>>
  IN [threw |-> Len(missing) > 0 /\ FormatThrows(missing),
      flowText |-> flowText, missingScreens |-> missing]

\* createMissingScreenCards labels each card from screen.severity
SeverityLabel(sev) ==
  IF sev = "high" THEN "HIGH PRIORITY"
  ELSE IF sev = "medium" THEN "MEDIUM PRIORITY" ELSE "LOW PRIORITY"

MissingCardsThrow(items) ==
  \E n \in 1..Len(items) : ~items[n].hasSeverity \/ ~items[n].hasComponents

createMissingScreenCards(items) ==
  [n \in 1..Len(items) |->
     [name |-> items[n].name, severity |-> items[n].severity,
      label |-> SeverityLabel(items[n].severity)]]

\* ------------------------------------------------- entering and leaving
\* msg.projectContext ?? '' in main's dispatch
MsgContext(msg) == IF msg.hasCtx THEN msg.projectContext ELSE <<>>

\* const key = (msgApiKey || apiKey).trim()
EffectiveKey(msgApiKey) == Trim(OrElse(msgApiKey, apiKey))

\* const ctx = (msgProjectContext ?? projectContext).trim(); main never
\* passes null or undefined
EffectiveCtx(msgProjectContext) == Trim(msgProjectContext)

\* an early return that sends nothing: the property of rejected commands is
\* checked against it, to see that the property tells the two apart
RejectedSilently(kind, key, notes) ==
  [IdleFrame EXCEPT !.kind = kind, !.pc = "done", !.rejected = TRUE, !.key = key]

\* an early return, after the notifications `notes`
Rejected(kind, key, notes) ==
  [IdleFrame EXCEPT !.kind = kind, !.pc = "done", !.rejected = TRUE, !.key = key,
                    !.sent = notes]

\* const prevKey = apiKey; ... ; apiKey = key; ...
Entered(kind, key, ctx, msg) ==
  [IdleFrame EXCEPT !.kind = kind, !.key = key, !.ctx = ctx, !.prov = msg.provider,
                    !.msgModel = msg.model,
                    !.prevKey = apiKey, !.prevCtx = projectContext,
                    !.prevProv = currentProvider]

\* a finally block that forgets to put the provider back: the property of
\* the restored session is checked against it
RestoredSessionKeepsProvider(f) == [key |-> f.prevKey, ctx |-> f.prevCtx, prov |-> f.prov]

\* the finally block: apiKey = prevKey; projectContext = prevCtx; ...
RestoredSession(f) == [key |-> f.prevKey, ctx |-> f.prevCtx, prov |-> f.prevProv]

\* the handler returns through its finally block
Return(a, f) ==
  LET after == RestoredSession(f) IN
  /\ inv' = [inv EXCEPT ![a] = [f EXCEPT !.pc = "done", !.pending = {}]]
  /\ apiKey' = after.key
  /\ projectContext' = after.ctx
  /\ currentProvider' = after.prov
  /\ hist' = HistOnFinish(a, after)

\* a catch block that reports nothing: the property of the terminal
\* notification is checked against it
CatchSilently(a, f) == Return(a, [f EXCEPT !.threw = TRUE])

\* a catch block that also reports completion: the property of the failed
\* batch is checked against it
CatchAndComplete(a, f) ==
  Return(a, Send([f EXCEPT !.threw = TRUE], <<"error", "scan-complete">>))

\* catch (e) { sendError(e) } finally { ... }
Catch(a, f) == Return(a, Send([f EXCEPT !.threw = TRUE], <<"error">>))

\* the handler suspends at an await
Suspend(a, f) ==
  /\ inv' = [inv EXCEPT ![a] = f]
  /\ UNCHANGED <<session, hist>>

\* msgModel || DEFAULT_MODELS[currentProvider]
ModelFor(f) == IF f.msgModel # "" THEN f.msgModel ELSE DEFAULT_MODELS(currentProvider)

\* callAI / callAIWithImages: one fetch, with the session as it is stored
\* when the call is made
Request(kind, f, about, images, prompt) ==
  [kind |-> kind, key |-> apiKey, prov |-> currentProvider, ctx |-> projectContext,
   model |-> f.model, about |-> about, images |-> images, prompt |-> prompt]

Outcomes == {"ok", "http", "network"}

\* ------------------------------------------------------ handleScanScreens
\* the frames of the batch that starts at i
BatchOf(f, i) == SubSeq(f.frameDataList, i + 1, Min(i + BATCH_SIZE, Len(f.frameDataList)))

\* Promise.all(batch.map(runScanOneScreen)): every request of the batch is
\* issued before the handler suspends
IssueBatch(f, i) ==
  LET batch == BatchOf(f, i) IN
  [f EXCEPT !.pc = "batch", !.i = i,
            !.pending = 1..Len(batch),
            !.arrival = <<>>,
            !.batchResults = [j \in 1..Len(batch) |-> 0],
            !.batches = Append(f.batches, Len(batch)),
            !.reqs = f.reqs \o [j \in 1..Len(batch) |->
                                  Request("doc", f, batch[j].id, 0, "screen")]]

\* results pushed in the order the responses arrived: the property of the
\* order of the documentation results is checked against it
CollectByArrival(f) ==
  LET batch == BatchOf(f, f.i) IN
  [j \in 1..Len(batch) |->
     [name |-> batch[f.arrival[j]].name, content |-> f.batchResults[f.arrival[j]]]]

\* docs.push({ name: batch[j].name, content: batchResults[j] })
CollectBatch(f) ==
  LET batch == BatchOf(f, f.i) IN
  [j \in 1..Len(batch) |-> [name |-> batch[j].name, content |-> f.batchResults[j]]]

\* createDocCardsForScreen(sourceBounds, content, name) for docs[k], nodes[k]
DocCards(f) ==
  [name |-> f.docs[f.k].name, content |-> f.docs[f.k].content, node |-> f.nodes[f.k]]

ScanScreensCommand(a, msg) ==
  LET key   == EffectiveKey(msg.apiKey)
      ctx   == EffectiveCtx(MsgContext(msg))
      nodes == selection
  IN
  /\ Free(a)
  /\ ncmd < MaxCmds
  /\ ncmd' = ncmd + 1
  /\ IF nodes = <<>> \/ key = <<>>
       THEN /\ inv' = [inv EXCEPT ![a] = Rejected("scan-screens", key, <<"error">>)]
            /\ hist' = HistOnOther(FALSE)
            /\ UNCHANGED session
       ELSE /\ inv' = [inv EXCEPT ![a] =
                 [Entered("scan-screens", key, ctx, msg) EXCEPT
                    !.pc = "ds", !.nodes = nodes,
                    !.frameDataList = extractFrameData(nodes),
                    !.designSystem = extractDesignSystem(nodes)]]
            /\ hist' = HistOnStart
            /\ apiKey' = key
            /\ projectContext' = ctx
            /\ currentProvider' = msg.provider
  /\ UNCHANGED <<caches, selection, selectionCount, ack>>
  /\ UNCHANGED call

\* extractDesignSystem has returned: cache, then issue the first batch
ScanScreensDesignSystem(a) ==
  LET f == inv[a] IN
  /\ f.kind = "scan-screens" /\ f.pc = "ds"
  /\ cachedDesignSystem' = f.designSystem
  /\ cachedFrameData' = f.frameDataList
  /\ cachedNodes' = f.nodes
  /\ Suspend(a, IssueBatch([f EXCEPT !.model = ModelFor(f)], 0))
  /\ UNCHANGED <<cachedScreenshots, selection, selectionCount, ack, ncmd>>
  /\ UNCHANGED call

\* a loop without its pause: the property of the order of the batches is
\* checked against it
AfterBatchWithoutPause(a, f) ==
  LET total == Len(f.frameDataList)
      g == Send([f EXCEPT !.docs = f.docs \o CollectBatch(f)], <<"progress">>)
  IN
  IF f.i + BATCH_SIZE < total
    THEN Suspend(a, IssueBatch(g, f.i + BATCH_SIZE))
    ELSE Suspend(a, Call(Send([g EXCEPT !.pc = "cards", !.k = 1], <<"progress">>),
                         "createDocCardsForScreen"))

\* all results of the batch are in: push them, report, pause or go on to
\* the cards
AfterBatch(a, f) ==
  LET total == Len(f.frameDataList)
      g == Send([f EXCEPT !.docs = f.docs \o CollectBatch(f)], <<"progress">>)
  IN
  IF f.i + BATCH_SIZE < total
    THEN Suspend(a, [g EXCEPT !.pc = "pause", !.pauses = Append(g.pauses, BATCH_DELAY_MS)])
    ELSE Suspend(a, Call(Send([g EXCEPT !.pc = "cards", !.k = 1], <<"progress">>),
                         "createDocCardsForScreen"))

\* the response to request j of the batch in flight arrives
ScanScreensResponse(a, j, outcome) ==
  LET f == Got(inv[a], outcome)
      g == [f EXCEPT !.pending = f.pending \ {j},
                     !.arrival = Append(f.arrival, j),
                     !.batchResults[j] = BatchOf(f, f.i)[j].id]
  IN
  /\ f.kind = "scan-screens" /\ f.pc = "batch"
  /\ j \in f.pending
  /\ IF outcome # "ok" THEN Catch(a, f)
     ELSE IF g.pending # {} THEN Suspend(a, g)
     ELSE AfterBatch(a, g)
  /\ UNCHANGED <<caches, selection, selectionCount, ack, ncmd>>
  /\ UNCHANGED call

\* setTimeout(resolve, BATCH_DELAY_MS) fires
ScanScreensPause(a) ==
  LET f == inv[a] IN
  /\ f.kind = "scan-screens" /\ f.pc = "pause"
  /\ Suspend(a, IssueBatch(f, f.i + BATCH_SIZE))
  /\ UNCHANGED <<caches, selection, selectionCount, ack, ncmd>>
  /\ UNCHANGED call

\* createDocCardsForScreen for docs[k] returns its cards, or throws
ScanScreensCards(a, ok) ==
  LET f == inv[a]
      g == [f EXCEPT !.createdCards = Append(f.createdCards, DocCards(f))]
  IN
  /\ f.kind = "scan-screens" /\ f.pc = "cards"
  /\ IF ~ok THEN Catch(a, f)
     ELSE IF f.k < Len(f.docs)
       THEN Suspend(a, Call([g EXCEPT !.k = f.k + 1], "createDocCardsForScreen"))
     ELSE Return(a, Send(g, <<"scan-complete">>))
  /\ UNCHANGED <<caches, selection, selectionCount, ack, ncmd>>
  /\ UNCHANGED call

\* ---------------------------------------------------------- handleScanFlow
ScanFlowCommand(a, msg) ==
  LET key   == EffectiveKey(msg.apiKey)
      ctx   == EffectiveCtx(MsgContext(msg))
      nodes == selection
  IN
  /\ Free(a)
  /\ ncmd < MaxCmds
  /\ ncmd' = ncmd + 1
  /\ IF nodes = <<>> \/ key = <<>>
       THEN /\ inv' = [inv EXCEPT ![a] = Rejected("scan-flow", key, <<"error">>)]
            /\ hist' = HistOnOther(FALSE)
            /\ UNCHANGED session
       ELSE /\ inv' = [inv EXCEPT ![a] =
                 Send([Entered("scan-flow", key, ctx, msg) EXCEPT
                         !.pc = "ds", !.nodes = nodes,
                         !.frameDataList = extractFrameData(nodes),
                         !.designSystem = extractDesignSystem(nodes)],
                      <<"progress">>)]
            /\ hist' = HistOnStart
            /\ apiKey' = key
            /\ projectContext' = ctx
            /\ currentProvider' = msg.provider
  /\ UNCHANGED <<caches, selection, selectionCount, ack>>
  /\ UNCHANGED call

\* a handler that caches the snapshot and the descriptors but not the node
\* list: the property of the three caches is checked against it
ScanFlowCachesWithoutNodes(a) ==
  LET f == [inv[a] EXCEPT !.model = ModelFor(inv[a])] IN
  /\ f.kind = "scan-flow" /\ f.pc = "ds"
  /\ cachedDesignSystem' = f.designSystem
  /\ cachedFrameData' = f.frameDataList
  /\ Suspend(a, [f EXCEPT !.pc = "req",
                          !.reqs = Append(f.reqs, Request("flow", f, 0, 0, "flow"))])
  /\ UNCHANGED <<cachedNodes, cachedScreenshots, selection, selectionCount, ack, ncmd>>
  /\ UNCHANGED call

\* extractDesignSystem has returned: cache, then the one combined request
ScanFlowDesignSystem(a) ==
  LET f == [inv[a] EXCEPT !.model = ModelFor(inv[a])] IN
  /\ f.kind = "scan-flow" /\ f.pc = "ds"
  /\ cachedDesignSystem' = f.designSystem
  /\ cachedFrameData' = f.frameDataList
  /\ cachedNodes' = f.nodes
  /\ Suspend(a, [f EXCEPT !.pc = "req",
                          !.reqs = Append(f.reqs, Request("flow", f, 0, 0, "flow"))])
  /\ UNCHANGED <<cachedScreenshots, selection, selectionCount, ack, ncmd>>
  /\ UNCHANGED call

\* the response arrives: runScanFlowWithEdgeCases splits and parses it,
\* then createFlowDocCards is called
ScanFlowResponse(a, outcome, text) ==
  LET f == Got(inv[a], outcome)
      r == ParseFlowResponse(text)
  IN
  /\ f.kind = "scan-flow" /\ f.pc = "req"
  /\ IF outcome # "ok" \/ r.threw THEN Catch(a, f)
     ELSE Suspend(a, Call(Send([f EXCEPT !.pc = "flowcards", !.flowText = r.flowText,
                                         !.missingScreens = r.missingScreens],
                               <<"progress">>),
                          "createFlowDocCards"))
  /\ UNCHANGED <<caches, selection, selectionCount, ack, ncmd>>
  /\ UNCHANGED call

\* createFlowDocCards returns, or throws
ScanFlowCards(a, ok) ==
  LET f == inv[a]
      g == [f EXCEPT !.flowRendered = <<f.flowText>>]
  IN
  /\ f.kind = "scan-flow" /\ f.pc = "flowcards"
  /\ IF ~ok THEN Catch(a, f)
     ELSE IF Len(f.missingScreens) > 0
       THEN Suspend(a, Call(Send([g EXCEPT !.pc = "mscards"], <<"progress">>),
                            "createMissingScreenCards"))
     ELSE Return(a, Send(g, <<"scan-complete">>))
  /\ UNCHANGED <<caches, selection, selectionCount, ack, ncmd>>
  /\ UNCHANGED call

\* createMissingScreenCards returns, or throws
ScanFlowMissingCards(a, ok) ==
  LET f == inv[a]
      g == [f EXCEPT !.missingRendered = createMissingScreenCards(f.missingScreens)]
  IN
  /\ f.kind = "scan-flow" /\ f.pc = "mscards"
  /\ IF ~ok \/ MissingCardsThrow(f.missingScreens) THEN Catch(a, f)
     ELSE Return(a, Send(g, <<"scan-complete">>))
  /\ UNCHANGED <<caches, selection, selectionCount, ack, ncmd>>
  /\ UNCHANGED call

\* ------------------------------------------- handleGenerateMissingScreens
\* cleaned.replace(/^```(?:json)?\s*/i, ''): a leading fence, an optional
\* "json" and the white space after them
StripLeadingFence(s) ==
  IF s # <<>> /\ Head(s) = FENCE
    THEN LET t == Tail(s) IN
         TrimStart(IF t # <<>> /\ Head(t) = "json" THEN Tail(t) ELSE t)
    ELSE s

\* .replace(/\s*```$/i, ''): a trailing fence and the white space before it
StripTrailingFence(s) ==
  IF s # <<>> /\ s[Len(s)] = FENCE THEN TrimEnd(SubSeq(s, 1, Len(s) - 1)) ELSE s

\* parseVisualScreenSpec: the accepted member word, or "" for null
parseVisualScreenSpec(raw) ==
  LET cleaned == StripTrailingFence(StripLeadingFence(Trim(raw)))
      match   == BraceMatch(cleaned)
      parsed  == JsonParse(match.text)
  IN IF match.found /\ parsed.ok /\ SpecAccepted(parsed.member) THEN parsed.member ELSE ""

\* the prompt reads item.components_needed.join: a TypeError when undefined
PromptThrows(item) == ~item.hasComponents

\* one vendor request for items[i + 1]: with the screenshots when there are
\* any, else the text-only fallback with the design-system summary
FirstRequest(f, i) ==
  IF Len(f.screenshots) > 0
    THEN Request("regen", f, i + 1, Len(f.screenshots), "user")
    ELSE Request("regen", f, i + 1, 0, "user+design-system")

\* the retry: the same call with images, callAI with userPrompt without
RetryRequest(f, i) ==
  IF Len(f.screenshots) > 0
    THEN Request("retry", f, i + 1, Len(f.screenshots), "user")
    ELSE Request("retry", f, i + 1, 0, "user")

\* the frame built for items[i + 1]
Built(f, via) == [name |-> f.items[f.i + 1].name, item |-> f.i + 1, via |-> via]

\* figma.currentPage.selection = createdFrames: the new frames' node ids
GeneratedNodes(frames) == [n \in 1..Len(frames) |-> 100 + frames[n].item]

\* the top of the loop body for items[i + 1], up to the await of its request
StartItem(a, f, i) ==
  LET g == Send([f EXCEPT !.i = i], <<"progress">>) IN
  IF PromptThrows(f.items[i + 1])
    THEN Catch(a, g) /\ UNCHANGED <<selection, selectionCount>>
    ELSE Suspend(a, [g EXCEPT !.pc = "req1", !.reqs = Append(g.reqs, FirstRequest(g, i))])
         /\ UNCHANGED <<selection, selectionCount>>

\* after the loop: select the created frames, format the documentation,
\* await createDocFrame
Finalize(a, f) ==
  /\ selection' = IF Len(f.createdFrames) > 0 THEN GeneratedNodes(f.createdFrames)
                  ELSE selection
  /\ selectionCount' = Len(selection')
  /\ IF FormatThrows(f.items)
       THEN Catch(a, Send(f, <<"progress">>))
       ELSE Suspend(a, Call(Send([f EXCEPT !.pc = "docframe"], <<"progress">>),
                            "createDocFrame"))

\* the end of the loop body: the next item, or the end of the loop
NextItem(a, f) ==
  IF f.i + 1 < Len(f.items) THEN StartItem(a, f, f.i + 1) ELSE Finalize(a, f)

GenerateCommand(a, msg) ==
  LET key == EffectiveKey(msg.apiKey)
      ctx == EffectiveCtx(MsgContext(msg))
      nodesToCapture == IF Len(cachedNodes) > 0 THEN cachedNodes ELSE selection
      f == Send([Entered("generate-missing-screens", key, ctx, msg) EXCEPT
                   !.items = msg.missingScreens,
                   !.model = IF msg.model # "" THEN msg.model
                             ELSE DEFAULT_MODELS(msg.provider),
                   !.screenshots = cachedScreenshots],
                <<"progress">>)
  IN
  /\ Free(a)
  /\ ncmd < MaxCmds
  /\ ncmd' = ncmd + 1
  /\ IF key = <<>> \/ Len(msg.missingScreens) = 0
       THEN /\ inv' = [inv EXCEPT ![a] =
                 [Rejected("generate-missing-screens", key, <<>>) EXCEPT
                    !.items = msg.missingScreens]]
            /\ hist' = HistOnOther(FALSE)
            /\ UNCHANGED session
       ELSE /\ inv' = [inv EXCEPT ![a] =
                 IF Len(cachedScreenshots) = 0 /\ Len(nodesToCapture) > 0
                   THEN [f EXCEPT !.pc = "capture", !.nodes = nodesToCapture]
                   ELSE [f EXCEPT !.pc = "fonts"]]
            /\ hist' = HistOnStart
            /\ apiKey' = key
            /\ projectContext' = ctx
            /\ currentProvider' = msg.provider
  /\ UNCHANGED <<caches, selection, selectionCount, ack>>
  /\ UNCHANGED call

\* captureScreenshots returns: one screenshot per node it could export
GenerateCaptured(a, exported) ==
  LET f == inv[a]
      screenshots == IF exported THEN f.nodes ELSE <<>>
  IN
  /\ f.kind = "generate-missing-screens" /\ f.pc = "capture"
  /\ cachedScreenshots' = screenshots
  /\ Suspend(a, [f EXCEPT !.pc = "fonts", !.screenshots = screenshots])
  /\ UNCHANGED <<cachedDesignSystem, cachedFrameData, cachedNodes, selection,
                 selectionCount, ack, ncmd>>
  /\ UNCHANGED call

\* loadFonts returns (it never throws): the loop starts
GenerateFonts(a) ==
  LET f == inv[a] IN
  /\ f.kind = "generate-missing-screens" /\ f.pc = "fonts"
  /\ StartItem(a, f, 0)
  /\ UNCHANGED <<caches, ack, ncmd>>
  /\ UNCHANGED call

\* the response to the first request for the item arrives
GenerateResponse(a, outcome, text) ==
  LET visualSpec == parseVisualScreenSpec(text)
      f == Got(inv[a], Heard(outcome, visualSpec))
  IN
  /\ f.kind = "generate-missing-screens" /\ f.pc = "req1"
  /\ IF outcome # "ok" THEN Catch(a, f)
     ELSE IF visualSpec = ""
       THEN Suspend(a, [f EXCEPT !.pc = "req2",
                                 !.reqs = Append(f.reqs, RetryRequest(f, f.i))])
     ELSE Suspend(a, Call([f EXCEPT !.pc = "build1", !.spec = visualSpec],
                          "buildVisualScreen"))
  /\ UNCHANGED <<caches, selection, selectionCount, ack, ncmd>>
  /\ UNCHANGED call

\* a loop that asks a third time for the first item: the property of the
\* single retry is checked against it
RetryAgain(a, outcome, text) ==
  LET retrySpec == parseVisualScreenSpec(text)
      f == Got(inv[a], Heard(outcome, retrySpec))
  IN
  /\ f.kind = "generate-missing-screens" /\ f.pc = "req2"
  /\ IF outcome # "ok" THEN Catch(a, f) /\ UNCHANGED <<selection, selectionCount>>
     ELSE IF retrySpec = "" /\ Len(f.reqs) < 3
       THEN Suspend(a, [f EXCEPT !.reqs = Append(f.reqs, RetryRequest(f, f.i))])
            /\ UNCHANGED <<selection, selectionCount>>
     ELSE IF retrySpec = ""
       THEN NextItem(a, Send([f EXCEPT !.skipped = Append(f.skipped, f.i + 1)],
                             <<"error">>))
     ELSE Suspend(a, Call([f EXCEPT !.pc = "build2", !.spec = retrySpec],
                          "buildVisualScreen"))
          /\ UNCHANGED <<selection, selectionCount>>
  /\ UNCHANGED <<caches, ack, ncmd>>
  /\ UNCHANGED call

\* the response to the retry arrives
GenerateRetryResponse(a, outcome, text) ==
  LET retrySpec == parseVisualScreenSpec(text)
      f == Got(inv[a], Heard(outcome, retrySpec))
  IN
  /\ f.kind = "generate-missing-screens" /\ f.pc = "req2"
  /\ IF outcome # "ok" THEN Catch(a, f) /\ UNCHANGED <<selection, selectionCount>>
     ELSE IF retrySpec = ""
       THEN NextItem(a, Send([f EXCEPT !.skipped = Append(f.skipped, f.i + 1)],
                             <<"error">>))
     ELSE Suspend(a, Call([f EXCEPT !.pc = "build2", !.spec = retrySpec],
                          "buildVisualScreen"))
          /\ UNCHANGED <<selection, selectionCount>>
  /\ UNCHANGED <<caches, ack, ncmd>>
  /\ UNCHANGED call

\* buildVisualScreen(visualSpec) returns the frame, or throws
GenerateBuilt(a, ok) ==
  LET f == inv[a] IN
  /\ f.kind = "generate-missing-screens" /\ f.pc = "build1"
  /\ IF ~ok THEN Catch(a, f) /\ UNCHANGED <<selection, selectionCount>>
     ELSE NextItem(a, [f EXCEPT !.createdFrames = Append(f.createdFrames, Built(f, "first")),
                                !.validated = Append(f.validated, f.i + 1),
                                !.spec = ""])
  /\ UNCHANGED <<caches, ack, ncmd>>
  /\ UNCHANGED call

\* buildVisualScreen(retrySpec) returns the frame, or throws
GenerateRetryBuilt(a, ok) ==
  LET f == inv[a] IN
  /\ f.kind = "generate-missing-screens" /\ f.pc = "build2"
  /\ IF ~ok THEN Catch(a, f) /\ UNCHANGED <<selection, selectionCount>>
     ELSE NextItem(a, [f EXCEPT !.createdFrames = Append(f.createdFrames, Built(f, "retry")),
                                !.spec = ""])
  /\ UNCHANGED <<caches, ack, ncmd>>
  /\ UNCHANGED call

\* createDocFrame returns, or throws
GenerateDocFrame(a, ok) ==
  LET f == inv[a] IN
  /\ f.kind = "generate-missing-screens" /\ f.pc = "docframe"
  /\ IF ~ok THEN Catch(a, f)
     ELSE Return(a, Send([f EXCEPT !.docFrame = TRUE], <<"screens-created">>))
  /\ UNCHANGED <<caches, selection, selectionCount, ack, ncmd>>
  /\ UNCHANGED call

\* ------------------------------------------------------------ set-api-key
\* the number of characters of a word of a key
WordLen(w) ==
  CASE w = "sk-ant-" -> 7 [] w = "sk-" -> 3 [] w = "abcdef" -> 6
    [] w = "abcdefgh" -> 8 [] w = "0123456789abcdefghij" -> 20 [] OTHER -> 1

RECURSIVE StrLen(_)
StrLen(s) == IF s = <<>> THEN 0 ELSE WordLen(Head(s)) + StrLen(Tail(s))

\* a word of [a-zA-Z0-9_-] characters
IsKeyChars(w) == w \in {"abcdef", "abcdefgh", "0123456789abcdefghij"}

isValidApiKeyFormat(key, prov) ==
  LET trimmed == Trim(key) IN
  IF StrLen(trimmed) < 10 THEN FALSE
  ELSE CASE prov = "anthropic" ->
              Len(trimmed) >= 2 /\ trimmed[1] = "sk-ant-" /\ IsKeyChars(trimmed[2])
         [] prov = "openai" ->
              \/ trimmed[1] = "sk-ant-"
              \/ Len(trimmed) >= 2 /\ trimmed[1] = "sk-" /\ IsKeyChars(trimmed[2])
         [] OTHER -> StrLen(trimmed) >= 20

\* set-api-key without its two early returns
SetApiKeyUnchecked(msg) ==
  /\ ncmd < MaxCmds
  /\ ncmd' = ncmd + 1
  /\ apiKey' = Trim(msg.key)
  /\ currentProvider' = msg.provider
  /\ projectContext' = Trim(MsgContext(msg))
  /\ ack' = "api-key-valid"
  /\ hist' = HistOnOther(TRUE)
  /\ UNCHANGED <<caches, selection, selectionCount, inv>>
  /\ UNCHANGED call

SetApiKeyCommand(msg) ==
  LET key  == Trim(msg.key)
      prov == msg.provider
      valid == key # <<>> /\ isValidApiKeyFormat(key, prov)
  IN
  /\ ncmd < MaxCmds
  /\ ncmd' = ncmd + 1
  /\ IF valid
       THEN /\ apiKey' = key
            /\ currentProvider' = prov
            /\ projectContext' = Trim(MsgContext(msg))
            /\ ack' = "api-key-valid"
       ELSE /\ UNCHANGED session
            /\ ack' = "api-key-error"
  /\ hist' = HistOnOther(valid)
  /\ UNCHANGED <<caches, selection, selectionCount, inv>>
  /\ UNCHANGED call

\* ---------------------------------------------------------- the document
\* the user changes the selection; figma.on('selectionchange') runs
\* updateSelectionCount
Select(sel) ==
  /\ selection' = sel
  /\ sel # selection
  /\ selectionCount' = Len(sel)
  /\ UNCHANGED <<session, caches, inv, hist, ack, ncmd>>
  /\ UNCHANGED call

\* ------------------------------------------------------------ the inputs
KeyA == <<"sk-ant-", "abcdef">>
KeyB == <<"sk-", "abcdefgh", Blank>>

\* what the UI panel posts with an action
ScanMsg(key, prov, ctx) ==
  [apiKey |-> key, provider |-> prov, hasCtx |-> TRUE, projectContext |-> ctx,
   model |-> ""]

\* what the UI panel posts with a scan action
ActionMsgs ==
  {ScanMsg(<<>>, "anthropic", <<>>), ScanMsg(<<Blank>>, "anthropic", <<>>),
   ScanMsg(KeyA, "anthropic", <<"ctx", Blank>>), ScanMsg(KeyB, "openai", <<>>)}

SetKeyMsg(key, prov, hasCtx) ==
  [key |-> key, provider |-> prov, hasCtx |-> hasCtx, projectContext |-> <<Blank, "ctx2">>]

SetKeyMsgs ==
  {SetKeyMsg(<<>>, "anthropic", TRUE), SetKeyMsg(KeyA, "anthropic", TRUE),
   SetKeyMsg(KeyB, "openai", FALSE), SetKeyMsg(<<"sk-", "abcdef">>, "openai", TRUE)}

GenerateMsg(key, prov, items) ==
  [apiKey |-> key, provider |-> prov, hasCtx |-> TRUE, projectContext |-> <<>>,
   model |-> "", missingScreens |-> items]

GenerateMsgs ==
  {GenerateMsg(<<>>, "anthropic", <<Item("A", TRUE, "high", TRUE)>>),
   GenerateMsg(KeyB, "openai", <<Item("C", TRUE, "medium", TRUE),
                                   Item("D", TRUE, "low", TRUE)>>),
   GenerateMsg(KeyA, "anthropic", <<>>)}

Selections == {<<>>, <<1>>, <<2, 1>>}

FlowTexts == {<<"w">>, <<"w", DELIM, "{", "ms:[high]", "}">>}

SpecTexts == {<<"{", "spec:ok", "}">>, <<"w">>}

\* the module state after construction
Constructed ==
  /\ apiKey = <<>>
  /\ projectContext = <<>>
  /\ currentProvider = "anthropic"
  /\ cachedDesignSystem = <<>>
  /\ cachedFrameData = <<>>
  /\ cachedNodes = <<>>
  /\ cachedScreenshots = <<>>
  /\ selection \in Selections
  /\ selectionCount = Len(selection)
  /\ inv = [a \in Acts |-> IdleFrame]
  /\ hist = NoHist
  /\ ack = "none"
  /\ ncmd = 0

Init == Constructed /\ call = NoCall

\* ------------------------------------------------ one command at a time
\* The panel disables its buttons while an action runs, so the commands of
\* one panel are handled by frame 1, one after the other; set-api-key and
\* selection changes arrive at any time.
Next ==
  \/ \E sel \in Selections : Select(sel)
  \/ \E msg \in SetKeyMsgs : SetApiKeyCommand(msg)
  \/ \E msg \in ActionMsgs : ScanScreensCommand(1, msg)
  \/ ScanScreensDesignSystem(1)
  \/ \E j \in 1..BATCH_SIZE, o \in Outcomes : ScanScreensResponse(1, j, o)
  \/ \E ok \in BOOLEAN : ScanScreensCards(1, ok)
  \/ \E msg \in ActionMsgs : ScanFlowCommand(1, msg)
  \/ ScanFlowDesignSystem(1)
  \/ \E o \in Outcomes, text \in FlowTexts : ScanFlowResponse(1, o, text)
  \/ \E ok \in BOOLEAN : ScanFlowCards(1, ok)
  \/ \E ok \in BOOLEAN : ScanFlowMissingCards(1, ok)
  \/ \E msg \in GenerateMsgs : GenerateCommand(1, msg)
  \/ \E ok \in BOOLEAN : GenerateCaptured(1, ok)
  \/ GenerateFonts(1)
  \/ \E o \in Outcomes, text \in SpecTexts : GenerateResponse(1, o, text)
  \/ \E o \in Outcomes, text \in SpecTexts : GenerateRetryResponse(1, o, text)
  \/ \E ok \in BOOLEAN : GenerateBuilt(1, ok)
  \/ \E ok \in BOOLEAN : GenerateRetryBuilt(1, ok)
  \/ \E ok \in BOOLEAN : GenerateDocFrame(1, ok)

Spec == Init /\ [][Next]_vars

\* ------------------------------------------------- overlapping actions
\* main() does not wait for a handler before it handles the next command:
\* a command that arrives while an action is suspended starts in a frame of
\* its own.
RaceMsgs == {ScanMsg(KeyA, "anthropic", <<"ctx", Blank>>), ScanMsg(KeyB, "openai", <<>>)}

RaceOutcomes == {"ok", "http"}

RaceTexts == {<<"w", DELIM, "{", "ms:[high]", "}">>}

InitRace == Init /\ selection = <<1>>

NextRace ==
  \/ \E a \in Acts, msg \in RaceMsgs : ScanScreensCommand(a, msg)
  \/ \E a \in Acts : ScanScreensDesignSystem(a)
  \/ \E a \in Acts, j \in 1..BATCH_SIZE, o \in RaceOutcomes : ScanScreensResponse(a, j, o)
  \/ \E a \in Acts, ok \in BOOLEAN : ScanScreensCards(a, ok)
  \/ \E a \in Acts, msg \in RaceMsgs : ScanFlowCommand(a, msg)
  \/ \E a \in Acts : ScanFlowDesignSystem(a)
  \/ \E a \in Acts, o \in RaceOutcomes, text \in RaceTexts : ScanFlowResponse(a, o, text)
  \/ \E a \in Acts, ok \in BOOLEAN : ScanFlowCards(a, ok)
  \/ \E a \in Acts, ok \in BOOLEAN : ScanFlowMissingCards(a, ok)

SpecRace == InitRace /\ [][NextRace]_vars

\* ------------------------------------------------ batches of screens
\* One panel documenting selections of up to MaxScreens screens; the
\* selection lists the node ids in descending order, so that selection order
\* and id order differ.
Descending(n) == [k \in 1..n |-> n + 1 - k]

BatchSelections == {Descending(n) : n \in 1..MaxScreens}

BatchMsgs == {ScanMsg(KeyA, "anthropic", <<>>)}

InitBatch ==
  /\ apiKey = <<>>
  /\ projectContext = <<>>
  /\ currentProvider = "anthropic"
  /\ cachedDesignSystem = <<>>
  /\ cachedFrameData = <<>>
  /\ cachedNodes = <<>>
  /\ cachedScreenshots = <<>>
  /\ selection \in BatchSelections
  /\ selectionCount = Len(selection)
  /\ inv = [a \in Acts |-> IdleFrame]
  /\ hist = NoHist
  /\ ack = "none"
  /\ ncmd = 0
  /\ call = NoCall

NextBatch ==
  \/ \E msg \in BatchMsgs : ScanScreensCommand(1, msg)
  \/ ScanScreensDesignSystem(1)
  \/ \E j \in 1..BATCH_SIZE, o \in Outcomes : ScanScreensResponse(1, j, o)
  \/ ScanScreensPause(1)
  \/ \E ok \in BOOLEAN : ScanScreensCards(1, ok)

SpecBatch == InitBatch /\ [][NextBatch]_vars

\* ------------------------------------------------- flow-analysis texts
\* One panel analysing a flow; the vendor answers with any of the texts
\* below: prose, then possibly the delimiter and what follows it.
FlowProse == {<<>>, <<"w">>, <<Blank, "w", Blank>>}

EdgeParts ==
  {<<>>, <<"w">>, <<"{", "}">>}
    \cup {<<"{", m, "}">> : m \in MemberWords}
    \cup {<<Blank, "{", Blank, m, "}", Blank>> : m \in MemberWords}
    \cup {<<FENCE, "{", m, "}", FENCE>> : m \in MemberWords}
    \cup {<<"{", m>> : m \in MemberWords}
    \cup {<<"{", m, "}", "w", "{", m, "}">> : m \in MemberWords}
    \cup {<<"{", m, "}", DELIM, "{", "ms:[high]", "}">> : m \in MemberWords}

AllFlowTexts ==
  {p \o e : p \in FlowProse, e \in EdgeParts}
    \cup {p \o <<DELIM>> \o e : p \in FlowProse, e \in EdgeParts}

FlowMsgs == {ScanMsg(KeyA, "anthropic", <<>>)}

InitFlow == Init /\ selection # <<>>

NextFlow ==
  \/ \E msg \in FlowMsgs : ScanFlowCommand(1, msg)
  \/ ScanFlowDesignSystem(1)
  \/ \E o \in Outcomes, text \in AllFlowTexts : ScanFlowResponse(1, o, text)
  \/ \E ok \in BOOLEAN : ScanFlowCards(1, ok)
  \/ \E ok \in BOOLEAN : ScanFlowMissingCards(1, ok)

SpecFlow == InitFlow /\ [][NextFlow]_vars

\* ------------------------------------------------------- regeneration
\* One panel generating the missing screens of lists of up to MaxItems
\* items, as the edge-case extraction hands them over.
ItemPool == {Item("A", TRUE, "high", TRUE), Item("E", FALSE, "", TRUE),
             Item("F", TRUE, "low", FALSE)}

ItemLists == UNION {[1..n -> ItemPool] : n \in 0..MaxItems}

RegenMsgs == {GenerateMsg(k, "anthropic", items) : k \in {<<>>, KeyA}, items \in ItemLists}

AllSpecTexts ==
  {<<"w">>, <<"{", "spec:ok">>, <<FENCE, "{", "spec:ok", "}", FENCE>>,
   <<"w", Blank, "{", "spec:ok", "}", "w">>}
    \cup {<<"{", m, "}">> : m \in SpecWords}

NextRegen ==
  \/ \E msg \in RegenMsgs : ncmd < MaxRuns /\ GenerateCommand(1, msg)
  \/ \E ok \in BOOLEAN : GenerateCaptured(1, ok)
  \/ GenerateFonts(1)
  \/ \E o \in Outcomes, text \in AllSpecTexts : GenerateResponse(1, o, text)
  \/ \E o \in Outcomes, text \in AllSpecTexts : GenerateRetryResponse(1, o, text)
  \/ \E ok \in BOOLEAN : GenerateBuilt(1, ok)
  \/ \E ok \in BOOLEAN : GenerateRetryBuilt(1, ok)
  \/ \E ok \in BOOLEAN : GenerateDocFrame(1, ok)

SpecRegen == Init /\ [][NextRegen]_vars

\* ------------------------------------------------------------- the panel
\* The commands of one panel (App): its buttons post an action command only
\* while isScanning is false, and main() starts the handler in a frame of
\* its own without waiting for the handlers already running.

\* the notifications on which the panel's handler calls setIsScanning(false)
Terminals == {"scan-complete", "screens-created", "error"}

\* the panel has handled a notification of the frame that ends its busy state
Answered(f) == \E n \in 1..Len(f.sent) : f.sent[n] \in Terminals

\* isScanning: set by the handler that posts a command, cleared by the first
\* terminal notification handled after it
isScanning == \E a \in Acts : inv[a].kind # "none" /\ ~Answered(inv[a])

\* edgeCaseResult: the result the panel holds is dropped when a scan is
\* started and when screens-created is handled
edgeCaseResult ==
  \A a \in Acts :
    /\ inv[a].kind \notin {"scan-screens", "scan-flow"}
    /\ \A n \in 1..Len(inv[a].sent) : inv[a].sent[n] # "screens-created"

\* handleScanScreens of the panel: if (!canAct) return; executeScanScreens()
PanelScanScreens(a, msg) == ~isScanning /\ selectionCount > 0 /\ ScanScreensCommand(a, msg)

\* handleScanFlow of the panel
PanelScanFlow(a, msg) == ~isScanning /\ selectionCount > 0 /\ ScanFlowCommand(a, msg)

\* handleCreateMissingScreens: the button is rendered while the panel holds
\* missing screens and is not scanning
PanelCreateMissingScreens(a, msg) ==
  ~isScanning /\ edgeCaseResult /\ Len(msg.missingScreens) > 0 /\ GenerateCommand(a, msg)

\* the panel's key field holds a key when a scan button is enabled
PanelScanMsgs == {ScanMsg(KeyA, "anthropic", <<>>)}

\* the missing screens of an earlier flow analysis, with the key field as
\* the user left it
PanelRegenMsgs ==
  {GenerateMsg(k, "anthropic", <<Item("A", TRUE, "high", TRUE)>>) : k \in {<<>>, KeyA}}

PanelOutcomes == {"ok", "http"}

\* after a flow analysis of frame 1 that reported missing screens
InitPanel ==
  /\ apiKey = <<>>
  /\ projectContext = <<>>
  /\ currentProvider = "anthropic"
  /\ cachedDesignSystem = extractDesignSystem(<<1>>)
  /\ cachedFrameData = extractFrameData(<<1>>)
  /\ cachedNodes = <<1>>
  /\ cachedScreenshots = <<>>
  /\ selection = <<1>>
  /\ selectionCount = 1
  /\ inv = [a \in Acts |-> IdleFrame]
  /\ hist = NoHist
  /\ ack = "none"
  /\ ncmd = 0
  /\ call = NoCall

\* the awaited calls of the handlers return
PanelReturns ==
  \/ \E a \in Acts : ScanScreensDesignSystem(a)
  \/ \E a \in Acts, j \in 1..BATCH_SIZE, o \in PanelOutcomes : ScanScreensResponse(a, j, o)
  \/ \E a \in Acts, ok \in BOOLEAN : ScanScreensCards(a, ok)
  \/ \E a \in Acts : ScanFlowDesignSystem(a)
  \/ \E a \in Acts, o \in PanelOutcomes, text \in FlowTexts : ScanFlowResponse(a, o, text)
  \/ \E a \in Acts, ok \in BOOLEAN : ScanFlowCards(a, ok)
  \/ \E a \in Acts, ok \in BOOLEAN : ScanFlowMissingCards(a, ok)
  \/ \E a \in Acts, ok \in BOOLEAN : GenerateCaptured(a, ok)
  \/ \E a \in Acts : GenerateFonts(a)
  \/ \E a \in Acts, o \in PanelOutcomes, text \in SpecTexts : GenerateResponse(a, o, text)
  \/ \E a \in Acts, o \in PanelOutcomes, text \in SpecTexts : GenerateRetryResponse(a, o, text)
  \/ \E a \in Acts, ok \in BOOLEAN : GenerateBuilt(a, ok)
  \/ \E a \in Acts, ok \in BOOLEAN : GenerateRetryBuilt(a, ok)
  \/ \E a \in Acts, ok \in BOOLEAN : GenerateDocFrame(a, ok)

NextPanel ==
  \/ \E a \in Acts, msg \in PanelScanMsgs : PanelScanScreens(a, msg)
  \/ \E a \in Acts, msg \in PanelScanMsgs : PanelScanFlow(a, msg)
  \/ \E a \in Acts, msg \in PanelRegenMsgs : PanelCreateMissingScreens(a, msg)
  \/ PanelReturns

SpecPanel == InitPanel /\ [][NextPanel]_vars

\* every network and document call a handler awaits eventually returns
SpecPanelLive == SpecPanel /\ WF_vars(PanelReturns)

\* ------------------------------------------- scans of changing selections
\* Scans started back to back while the user changes the selection: each
\* handler caches what it extracted from the selection it started with.
ScansSelections == {<<1>>, <<2, 1>>}

ScansMsgs == {ScanMsg(KeyA, "anthropic", <<>>)}

\* a failed request leaves the caches as they are: the vendor answers
ScansOutcomes == {"ok"}

InitScans == Init /\ selection \in ScansSelections

NextScans ==
  \/ \E sel \in ScansSelections : Select(sel)
  \/ \E a \in Acts, msg \in ScansMsgs : ScanScreensCommand(a, msg)
  \/ \E a \in Acts : ScanScreensDesignSystem(a)
  \/ \E a \in Acts, j \in 1..BATCH_SIZE, o \in ScansOutcomes : ScanScreensResponse(a, j, o)
  \/ \E a \in Acts, ok \in BOOLEAN : ScanScreensCards(a, ok)
  \/ \E a \in Acts, msg \in ScansMsgs : ScanFlowCommand(a, msg)
  \/ \E a \in Acts : ScanFlowDesignSystem(a)
  \/ \E a \in Acts, o \in ScansOutcomes, text \in RaceTexts : ScanFlowResponse(a, o, text)
  \/ \E a \in Acts, ok \in BOOLEAN : ScanFlowCards(a, ok)
  \/ \E a \in Acts, ok \in BOOLEAN : ScanFlowMissingCards(a, ok)

SpecScans == InitScans /\ [][NextScans]_vars

\* ------------------------------------------------------ parseDocSections
\* A document is a tuple of lines and a line a tuple of atoms: "#" a run of
\* hash marks, Blank white space, a title, or any other word.  NL is the
\* line feed that join puts between the lines.
NL == "nl"

SectionKeys ==
  {"Purpose", "Use Cases", "Edge Cases & Results", "Platform Constraints",
   "Data Logic & Edge Cases", "Link to Component Library",
   "Animations & Interactions", "Attachments"}

\* SECTION_HEADERS: the key whose pattern matches the title, "" when none
TitleKey(title) ==
  CASE title \in {"Purpose", "PURPOSE"} -> "Purpose"
    [] title = "Use Cases" -> "Use Cases"
    [] title \in {"Edge Cases", "Edge Cases & Results"} -> "Edge Cases & Results"
    [] title \in {"Platform Constraints", "Platform Constraints (iOS)"}
         -> "Platform Constraints"
    [] title \in {"Data Logic", "Data Logic & Edge Cases"} -> "Data Logic & Edge Cases"
    [] title = "Link to Component Library" -> "Link to Component Library"
    [] title \in {"Animations", "Animations & Interactions"}
         -> "Animations & Interactions"
    [] title = "Attachments" -> "Attachments"
    [] OTHER -> ""

\* SECTION_HEADERS.find(h => h.pattern.test(trimmed)): hash marks, optional
\* white space, the title, and nothing else
SectionHeader(line) ==
  LET t == Trim(line) IN
  IF Len(t) >= 2 /\ t[1] = "#" /\ Len(DropBlanks(Tail(t))) = 1
    THEN TitleKey(DropBlanks(Tail(t))[1])
    ELSE ""

LINK_DEFAULT == <<"_____ (add link here)">>
ATTACHMENTS_DEFAULT == <<"Design specs / Assets / Other: _____ (add link)">>

\* a record whose sections all start empty
NoDefaults == [k \in {"Purpose", "Use Cases", "Edge Cases & Results",
                      "Platform Constraints", "Data Logic & Edge Cases",
                      "Link to Component Library", "Animations & Interactions",
                      "Attachments"} |-> <<>>]

\* const sections = { 'Purpose': '', ... }
DefaultSections ==
  [k \in SectionKeys |->
     IF k = "Link to Component Library" THEN LINK_DEFAULT
     ELSE IF k = "Attachments" THEN ATTACHMENTS_DEFAULT
     ELSE <<>>]

\* white space as \s sees it
IsWs(x) == x \in {Blank, NL}

\* currentLines.join('\n')
RECURSIVE JoinLines(_)
JoinLines(lines) ==
  IF lines = <<>> THEN <<>>
  ELSE IF Len(lines) = 1 THEN lines[1]
  ELSE lines[1] \o <<NL>> \o JoinLines(Tail(lines))

\* the end of the run of white space that starts at n (n - 1 when none)
RECURSIVE WsEnd(_, _)
WsEnd(s, n) == IF n <= Len(s) /\ IsWs(s[n]) THEN WsEnd(s, n + 1) ELSE n - 1

\* String.prototype.trim on a text of several lines
RECURSIVE TrimWsEnd(_)
TrimWsEnd(s) ==
  IF s # <<>> /\ IsWs(s[Len(s)]) THEN TrimWsEnd(SubSeq(s, 1, Len(s) - 1)) ELSE s

TrimWs(s) == TrimWsEnd(SubSeq(s, WsEnd(s, 1) + 1, Len(s)))

\* replace(/^#+\s*/gm, ''): hash marks at the start of a line go, with the
\* white space (line feeds included) after them
RECURSIVE StripLeadingMarksFrom(_, _)
StripLeadingMarksFrom(s, n) ==
  IF n > Len(s) THEN <<>>
  ELSE IF s[n] = "#" /\ (n = 1 \/ s[n - 1] = NL)
    THEN StripLeadingMarksFrom(s, WsEnd(s, n + 1) + 1)
  ELSE <<s[n]>> \o StripLeadingMarksFrom(s, n + 1)

StripLeadingMarks(s) == StripLeadingMarksFrom(s, 1)

\* the last line feed of s[lo..hi], 0 when none
RECURSIVE LastFeed(_, _, _)
LastFeed(s, lo, hi) ==
  IF hi < lo THEN 0 ELSE IF s[hi] = NL THEN hi ELSE LastFeed(s, lo, hi - 1)

\* replace(/\s*#+\s*$/gm, ''): hash marks at the end of a line go, with the
\* white space before them and the white space after them up to the end of
\* a line
RECURSIVE StripTrailingMarksFrom(_, _)
StripTrailingMarksFrom(s, n) ==
  IF n > Len(s) THEN <<>>
  ELSE
    LET b == WsEnd(s, n) + 1
        d == WsEnd(s, b + 1)
        e == IF d = Len(s) THEN d ELSE LastFeed(s, b + 1, d) - 1
    IN
    IF b <= Len(s) /\ s[b] = "#" /\ e >= b
      THEN StripTrailingMarksFrom(s, e + 1)
      ELSE <<s[n]>> \o StripTrailingMarksFrom(s, n + 1)

StripTrailingMarks(s) == StripTrailingMarksFrom(s, 1)

\* replace(/\n#+\s*/g, '\n')
RECURSIVE StripMarksAfterFeedFrom(_, _)
StripMarksAfterFeedFrom(s, n) ==
  IF n > Len(s) THEN <<>>
  ELSE IF s[n] = NL /\ n < Len(s) /\ s[n + 1] = "#"
    THEN <<NL>> \o StripMarksAfterFeedFrom(s, WsEnd(s, n + 2) + 1)
  ELSE <<s[n]>> \o StripMarksAfterFeedFrom(s, n + 1)

StripMarksAfterFeed(s) == StripMarksAfterFeedFrom(s, 1)

\* flush() without its two replacements
FlushUnstripped(sections, currentKey, currentLines) ==
  LET content == TrimWs(JoinLines(currentLines))
  IN IF currentKey = "" \/ content = <<>> THEN sections
     ELSE [sections EXCEPT ![currentKey] = content]

\* flush(): the content collected for currentKey, when it is not empty
Flush(sections, currentKey, currentLines) ==
  LET content == TrimWs(StripTrailingMarks(StripLeadingMarks(TrimWs(JoinLines(currentLines)))))
  IN IF currentKey = "" \/ content = <<>> THEN sections
     ELSE [sections EXCEPT ![currentKey] = content]

\* the loop over the lines, then the last flush
RECURSIVE ScanLines(_, _, _, _)
ScanLines(lines, sections, currentKey, currentLines) ==
  IF lines = <<>> THEN Flush(sections, currentKey, currentLines)
  ELSE LET matched == SectionHeader(Head(lines)) IN
       IF matched # ""
         THEN ScanLines(Tail(lines), Flush(sections, currentKey, currentLines), matched, <<>>)
       ELSE IF currentKey # ""
         THEN ScanLines(Tail(lines), sections, currentKey, Append(currentLines, Head(lines)))
       ELSE ScanLines(Tail(lines), sections, currentKey, currentLines)

\* the last loop: what is left of the marks in each section
Cleaned(v) == TrimWs(StripMarksAfterFeed(StripLeadingMarks(v)))

parseDocSections(fullDoc) ==
  LET sections == ScanLines(fullDoc, DefaultSections, "", <<>>) IN
  [k \in SectionKeys |-> Cleaned(sections[k])]

\* ------------------------------------------- the edge-case extraction
\* runScanFlowWithEdgeCases applied to a response text on its own: the text
\* is drawn at the start, and the one step is the processing of it.
ExtractTexts ==
  AllFlowTexts
    \cup {p \o <<DELIM>> \o e \o <<DELIM, "}">> : p \in FlowProse, e \in EdgeParts}
    \cup {p \o <<DELIM, "w", DELIM>> \o e : p \in FlowProse, e \in EdgeParts}

Calling(fn, arg) == [NoCall EXCEPT !.fn = fn, !.arg = arg]

Idle(fn) == call.fn = fn /\ ~call.returned /\ ~call.threw

ExtractEdgeCases ==
  LET r == ParseFlowResponse(call.arg) IN
  /\ Idle("runScanFlowWithEdgeCases")
  /\ call' = IF r.threw THEN [call EXCEPT !.threw = TRUE]
             ELSE [call EXCEPT !.returned = TRUE,
                               !.out = [flowText |-> r.flowText,
                                        missingScreens |-> r.missingScreens]]
  /\ UNCHANGED <<session, caches, selection, selectionCount, inv, hist, ack, ncmd>>

InitExtract ==
  /\ Constructed
  /\ selection = <<>>
  /\ call \in {Calling("runScanFlowWithEdgeCases", t) : t \in ExtractTexts}

SpecExtract == InitExtract /\ [][ExtractEdgeCases]_vars

\* --------------------------------------------------- documents to parse
\* the order of the sections in a generated document
KeyOrder ==
  <<"Purpose", "Use Cases", "Edge Cases & Results", "Platform Constraints",
    "Data Logic & Edge Cases", "Link to Component Library",
    "Animations & Interactions", "Attachments">>

HeaderLine(k) == <<"#", Blank, k>>

\* lines of a free-form document
LinePool ==
  {HeaderLine("Purpose"), HeaderLine("Edge Cases"), HeaderLine("Attachments"),
   HeaderLine("Link to Component Library"),
   <<Blank, "#", "Attachments", Blank>>,
   <<"Purpose">>, <<"t">>, <<"#", Blank, "u">>, <<"t", Blank, "#">>,
   <<>>, <<"#">>, <<"#", Blank, "#", Blank, "#">>}

RECURSIVE LinesUpTo(_)
LinesUpTo(n) ==
  IF n = 0 THEN {<<>>}
  ELSE LinesUpTo(n - 1) \cup {Append(d, l) : d \in LinesUpTo(n - 1), l \in LinePool}

\* what a section of a generated document holds
Blocks ==
  << <<>>,
     << <<"t">> >>,
     << <<"#", Blank, "u">>, <<>>, <<"t", Blank, "#">>, <<"#", Blank, "Notes">> >> >>

\* what precedes the first header
Leads == {<<>>, << <<"w">>, <<"#", Blank, "w">> >>}

RECURSIVE Sectioned(_, _)
Sectioned(pick, n) ==
  IF n > Len(KeyOrder) THEN <<>>
  ELSE <<HeaderLine(KeyOrder[n])>> \o Blocks[pick[n]] \o Sectioned(pick, n + 1)

OrderedDocs ==
  {lead \o Sectioned(pick, 1) :
     lead \in Leads, pick \in [1..Len(KeyOrder) -> 1..Len(Blocks)]}

DocTexts == LinesUpTo(MaxLines) \cup OrderedDocs

ParseSections ==
  /\ Idle("parseDocSections")
  /\ call' = [call EXCEPT !.returned = TRUE, !.out = parseDocSections(call.arg)]
  /\ UNCHANGED <<session, caches, selection, selectionCount, inv, hist, ack, ncmd>>

InitSections ==
  /\ Constructed
  /\ selection = <<>>
  /\ call \in {Calling("parseDocSections", d) : d \in DocTexts}

SpecSections == InitSections /\ [][ParseSections]_vars

\* ------------------------------------------------- screen specs to parse
Openings == {<<>>, <<Blank>>, <<FENCE>>, <<FENCE, "json", Blank>>, <<"w", Blank>>}

Objects ==
  {<<"{", m, "}">> : m \in SpecWords \cup {"ms:[high]"}}
    \cup {<<"{", Blank, "spec:ok", Blank, "}">>, <<"{", "spec:ok">>, <<"spec:ok", "}">>,
          <<"{", "}">>, <<"}", "spec:ok", "{">>, <<"{", "spec:ok", "}", "}">>,
          <<"{", "spec:ok", "}", "{", "spec:ok", "}">>, <<"w">>, <<>>}

Closings == {<<>>, <<Blank, FENCE>>, <<FENCE, Blank>>, <<Blank, "w">>}

VisualTexts == {o \o b \o c : o \in Openings, b \in Objects, c \in Closings}

ParseVisualSpec ==
  /\ Idle("parseVisualScreenSpec")
  /\ call' = [call EXCEPT !.returned = TRUE, !.out = parseVisualScreenSpec(call.arg)]
  /\ UNCHANGED <<session, caches, selection, selectionCount, inv, hist, ack, ncmd>>

InitVisual ==
  /\ Constructed
  /\ selection = <<>>
  /\ call \in {Calling("parseVisualScreenSpec", t) : t \in VisualTexts}

SpecVisual == InitVisual /\ [][ParseVisualSpec]_vars

\* ------------------------------------------------------ provider adapter
Providers == {"anthropic", "openai", "google"}

PROVIDER_LABELS(prov) ==
  CASE prov = "anthropic" -> "Anthropic"
    [] prov = "openai"    -> "OpenAI"
    [] OTHER              -> "Google"

PRODUCTION_PROXY == "https://flow-docs-plugin.vercel.app/api/proxy"

\* getEndpoint when PROXY_BASE is set: the local proxy, one path per vendor
getEndpoint(prov, model) ==
  CASE prov = "anthropic" -> <<"http://localhost:3001", "/anthropic/v1/messages">>
    [] prov = "openai"    -> <<"http://localhost:3001", "/openai/v1/chat/completions">>
    [] OTHER              -> <<"http://localhost:3001", "/google/v1beta/models/", model,
                               ":generateContent">>

\* the request body each caller builds: the model is a member of it for
\* Anthropic and OpenAI only
VendorBody(prov, model) ==
  IF prov = "google" THEN [shape |-> "google", model |-> ""]
  ELSE [shape |-> prov, model |-> model]

\* the one fetch of callAnthropic / callOpenAI / callGemini: to the local
\* proxy in a development build, else callViaVercelProxy with the envelope
Fetch(arg) ==
  IF arg.dev
    THEN [url |-> getEndpoint(arg.prov, arg.model), key |-> arg.key,
          body |-> VendorBody(arg.prov, arg.model)]
    ELSE [url |-> <<PRODUCTION_PROXY>>, key |-> <<>>,
          body |-> [provider |-> arg.prov, apiKey |-> arg.key, model |-> arg.model,
                    body |-> VendorBody(arg.prov, arg.model)]]

\* response.ok
ResponseOk(status) == status \in 200..299

\* new Error("API error " + response.status), nothing of the body
ApiErrorStatusOnly(status, body) ==
  [type |-> "Error", message |-> <<"API error", ToString(status), ":">>]

\* new Error("API error " + response.status + ": " + errorText)
ApiError(status, body) ==
  [type |-> "Error", message |-> <<"API error", ToString(status), ":">> \o body]

\* response.json(): the body is JSON or a SyntaxError is thrown
IsJson(body) == body \in {<<"json:text">>, <<"json:empty">>}

\* the text member of the parsed body, '' when it is missing
ExtractText(body) == IF body = <<"json:text">> THEN <<"text">> ELSE <<>>

\* String.prototype.includes, word by word
Within(word, pat) ==
  \/ word = pat
  \/ <<word, pat>> \in {<<"req_0401", "401">>, <<"Failed to fetch", "fetch">>,
                        <<"Unexpected token, not valid JSON", "JSON">>,
                        <<"credit balance", "credit">>}

Includes(message, pat) == \E n \in 1..Len(message) : Within(message[n], pat)

\* message.toLowerCase()
Lower(word) ==
  CASE word = "Rate Limit"      -> "rate limit"
    [] word = "API error"       -> "api error"
    [] word = "Failed to fetch" -> "failed to fetch"
    [] word = "Unexpected token, not valid JSON" -> "unexpected token, not valid json"
    [] OTHER                    -> word

LowerIncludes(message, pat) == \E n \in 1..Len(message) : Within(Lower(message[n]), pat)

Shown(kind, label) == [kind |-> kind, label |-> label]

\* message.match(/API error (\d+)/): the digits after the first "API error"
ApiErrorCode(message) ==
  LET n == IndexOf(message, "API error") IN
  IF n # 0 /\ n < Len(message) THEN message[n + 1] ELSE ""

\* getUserFriendlyError for an Error: the first test that the message passes
getUserFriendlyError(error, provider) ==
  LET label   == PROVIDER_LABELS(provider)
      message == IF error.message = <<>> THEN <<"Unknown error">> ELSE error.message
      code    == ApiErrorCode(message)
  IN
  IF Includes(message, "401") \/ LowerIncludes(message, "invalid api key")
       \/ LowerIncludes(message, "incorrect api key")
    THEN Shown("invalid-key", label)
  ELSE IF Includes(message, "429") \/ LowerIncludes(message, "rate limit")
    THEN Shown("rate-limit", "")
  ELSE IF Includes(message, "402") \/ LowerIncludes(message, "insufficient_quota")
            \/ LowerIncludes(message, "credit") \/ LowerIncludes(message, "quota")
    THEN Shown("credits", label)
  ELSE IF Includes(message, "400")
    THEN Shown("request-error", "")
  ELSE IF Includes(message, "500") \/ Includes(message, "502") \/ Includes(message, "503")
            \/ Includes(message, "529") \/ LowerIncludes(message, "overloaded")
    THEN Shown("overloaded", label)
  ELSE IF Includes(message, "API error") /\ code = "401" THEN Shown("invalid-key", label)
  ELSE IF Includes(message, "API error") /\ code = "402" THEN Shown("credits", label)
  ELSE IF Includes(message, "API error") /\ code = "429" THEN Shown("rate-limit", "")
  ELSE IF Includes(message, "API error") /\ code = "400" THEN Shown("request-error", "")
  ELSE IF Includes(message, "API error") /\ code \in {"500", "502", "503", "529"}
    THEN Shown("overloaded", label)
  ELSE IF LowerIncludes(message, "timeout") \/ LowerIncludes(message, "timed out")
    THEN Shown("timeout", "")
  ELSE IF error.type = "TypeError"
            /\ (Includes(message, "fetch") \/ Includes(message, "Failed to fetch"))
    THEN Shown("connection", "")
  ELSE IF LowerIncludes(message, "cors") \/ LowerIncludes(message, "failed to fetch")
            \/ LowerIncludes(message, "network")
    THEN Shown("connection", "")
  ELSE IF LowerIncludes(message, "no frames selected") \/ LowerIncludes(message, "selection")
    THEN Shown("selection", "")
  ELSE IF Includes(message, "JSON") \/ LowerIncludes(message, "parse")
    THEN Shown("parse", "")
  ELSE Shown("raw", "")

\* HTTP statuses and body texts a vendor (or the proxy) answers with
Statuses == {200, 204, 304, 400, 401, 402, 403, 429, 500, 502, 503, 529}

BodyWords ==
  {"json:text", "json:empty", "w", "req_0401", "429", "400", "500", "overloaded",
   "Rate Limit", "invalid api key", "quota", "credit balance", "timeout"}

Bodies == {<<>>} \cup {<<w>> : w \in BodyWords}

\* the caller issues its request and awaits the response
CallAIFetch ==
  /\ Idle("callAI")
  /\ call.net.fetched = <<>>
  /\ call' = [call EXCEPT !.net.fetched = <<Fetch(call.arg)>>]
  /\ UNCHANGED <<session, caches, selection, selectionCount, inv, hist, ack, ncmd>>

\* the response arrives: an error for a status that is not ok, else the text
\* of the parsed body
CallAIResponse(status, body) ==
  /\ Idle("callAI")
  /\ call.net.fetched # <<>>
  /\ call' =
       IF ~ResponseOk(status)
         THEN [call EXCEPT !.threw = TRUE,
                           !.net.response = <<[status |-> status, body |-> body]>>,
                           !.net.error = <<ApiError(status, body)>>]
       ELSE IF ~IsJson(body)
         THEN [call EXCEPT !.threw = TRUE,
                           !.net.response = <<[status |-> status, body |-> body]>>,
                           !.net.error = <<[type |-> "SyntaxError",
                                            message |-> <<"Unexpected token, not valid JSON">>]>>]
       ELSE [call EXCEPT !.returned = TRUE,
                         !.net.response = <<[status |-> status, body |-> body]>>,
                         !.out = [text |-> ExtractText(body)]]
  /\ UNCHANGED <<session, caches, selection, selectionCount, inv, hist, ack, ncmd>>

\* fetch rejects: no response
CallAINetworkError ==
  /\ Idle("callAI")
  /\ call.net.fetched # <<>>
  /\ call' = [call EXCEPT !.threw = TRUE,
                          !.net.error = <<[type |-> "TypeError",
                                           message |-> <<"Failed to fetch">>]>>]
  /\ UNCHANGED <<session, caches, selection, selectionCount, inv, hist, ack, ncmd>>

\* the handler's catch: sendError(error)
SendError ==
  /\ call.fn = "callAI" /\ call.threw
  /\ call.net.shown = <<>>
  /\ call' = [call EXCEPT !.net.shown =
                <<getUserFriendlyError(call.net.error[1], currentProvider)>>]
  /\ UNCHANGED <<session, caches, selection, selectionCount, inv, hist, ack, ncmd>>

\* a handler calls callAI with the stored session
InitAdapter ==
  /\ apiKey = KeyA
  /\ projectContext = <<>>
  /\ currentProvider \in Providers
  /\ cachedDesignSystem = <<>>
  /\ cachedFrameData = <<>>
  /\ cachedNodes = <<>>
  /\ cachedScreenshots = <<>>
  /\ selection = <<1>>
  /\ selectionCount = 1
  /\ inv = [a \in Acts |-> IdleFrame]
  /\ hist = NoHist
  /\ ack = ""
  /\ ncmd = 0
  /\ call \in {Calling("callAI", [prov |-> currentProvider, key |-> apiKey,
                                   model |-> DEFAULT_MODELS(currentProvider), dev |-> d]) :
                 d \in BOOLEAN}

NextAdapter ==
  \/ CallAIFetch
  \/ \E status \in Statuses, body \in Bodies : CallAIResponse(status, body)
  \/ CallAINetworkError
  \/ SendError

SpecAdapter == InitAdapter /\ [][NextAdapter]_vars

\* ------------------------------------------------------------- the relay
\* The serverless relay (api/proxy): one run of handler per request.  The
\* request is [method, isString, parses, payload]: req.body is a string or
\* what the platform parsed, and the payload is the value it stands for.
NoMember == ""

\* JSON.stringify of a body: an object text without insignificant space
JsonStringify(value) == <<"{", value, "}">>

AnEnvelope(provider, key, model, body) ==
  [isObject |-> TRUE, isNull |-> FALSE,
   provider |-> provider, apiKey |-> key, model |-> model, body |-> body]

\* JSON null, and a JSON number: a payload without members
NullPayload ==
  [isObject |-> FALSE, isNull |-> TRUE,
   provider |-> NoMember, apiKey |-> <<>>, model |-> NoMember, body |-> NoMember]

ScalarPayload == [NullPayload EXCEPT !.isNull = FALSE]

\* the relay's answer
Answer(status, text) == [status |-> status, text |-> text, cors |-> TRUE]

\* the switch on provider: the vendor's URL and the header that holds the key
Upstream(provider, key, model) ==
  CASE provider = "anthropic" ->
         [url |-> <<"https://api.anthropic.com/v1/messages">>, header |-> "x-api-key",
          key |-> key]
    [] provider = "openai" ->
         [url |-> <<"https://api.openai.com/v1/chat/completions">>,
          header |-> "Authorization", key |-> key]
    [] OTHER ->
         [url |-> <<"https://generativelanguage.googleapis.com/v1beta/models/", model,
                    ":generateContent?key=">> \o key,
          header |-> "", key |-> <<>>]

\* no check of the envelope
EnvelopeUnchecked(p) == ""

\* the checks of the envelope, "" when it passes
EnvelopeProblem(p) ==
  IF p.provider = NoMember \/ p.apiKey = <<>> \/ p.body = NoMember
    THEN "Missing provider, apiKey, or body"
  ELSE IF p.provider = "google" /\ p.model = NoMember THEN "Missing model for Google"
  ELSE IF p.provider \notin {"anthropic", "openai", "google"} THEN "Unknown provider"
  ELSE ""

\* handler, up to its answer or to the await of its fetch
RelayRequest ==
  LET req == call.arg
      p   == req.payload IN
  /\ Idle("handler")
  /\ call.net.fetched = <<>>
  /\ call' =
       IF req.method = "OPTIONS"
         THEN [call EXCEPT !.returned = TRUE, !.out = Answer(204, <<>>)]
       ELSE IF req.method # "POST"
         THEN [call EXCEPT !.returned = TRUE, !.out = Answer(405, <<"Method not allowed">>)]
       ELSE IF req.isString /\ ~req.parses
         THEN [call EXCEPT !.returned = TRUE, !.out = Answer(400, <<"Invalid JSON body">>)]
       ELSE IF p.isNull
         THEN [call EXCEPT !.threw = TRUE]
       ELSE IF EnvelopeProblem(p) # ""
         THEN [call EXCEPT !.returned = TRUE, !.out = Answer(400, <<EnvelopeProblem(p)>>)]
       ELSE [call EXCEPT !.net.fetched =
               <<[to |-> Upstream(p.provider, p.apiKey, p.model),
                  body |-> JsonStringify(p.body)]>>]
  /\ UNCHANGED <<session, caches, selection, selectionCount, inv, hist, ack, ncmd>>

\* the vendor answers: its status and its text are passed on
RelayResponse(status, body) ==
  /\ Idle("handler")
  /\ call.net.fetched # <<>>
  /\ call' = [call EXCEPT !.returned = TRUE,
                          !.net.response = <<[status |-> status, body |-> body]>>,
                          !.out = Answer(status, body)]
  /\ UNCHANGED <<session, caches, selection, selectionCount, inv, hist, ack, ncmd>>

\* the fetch fails
RelayFailure ==
  /\ Idle("handler")
  /\ call.net.fetched # <<>>
  /\ call' = [call EXCEPT !.returned = TRUE,
                          !.out = Answer(502, <<"Proxy request failed">>)]
  /\ UNCHANGED <<session, caches, selection, selectionCount, inv, hist, ack, ncmd>>

Envelopes ==
  {AnEnvelope(pr, k, m, b) :
     pr \in {"anthropic", "openai", "google", "mistral", NoMember},
     k \in {<<>>, KeyA}, m \in {NoMember, "gemini-2.0-flash"},
     b \in {NoMember, "messages:1", "contents:2"}}

Requests ==
  {[method |-> "OPTIONS", isString |-> FALSE, parses |-> TRUE, payload |-> NullPayload],
   [method |-> "GET", isString |-> FALSE, parses |-> TRUE, payload |-> NullPayload],
   [method |-> "POST", isString |-> TRUE, parses |-> FALSE, payload |-> NullPayload],
   [method |-> "POST", isString |-> TRUE, parses |-> TRUE, payload |-> NullPayload],
   [method |-> "POST", isString |-> FALSE, parses |-> TRUE, payload |-> ScalarPayload]}
    \cup {[method |-> "POST", isString |-> str, parses |-> TRUE, payload |-> p] :
            str \in BOOLEAN, p \in Envelopes}

InitRelay ==
  /\ Constructed
  /\ selection = <<>>
  /\ call \in {Calling("handler", r) : r \in Requests}

NextRelay ==
  \/ RelayRequest
  \/ \E status \in Statuses, body \in {<<>>, <<"json:text">>, <<"w", Blank>>} :
       RelayResponse(status, body)
  \/ RelayFailure

SpecRelay == InitRelay /\ [][NextRelay]_vars

\* ------------------------------------------------ scans after a scan
\* One panel that has scanned frame 1 and, possibly, generated screens from
\* it (which cached the screenshots of frame 1); the selection may change
\* before its next scan and its next regeneration.
CacheScanMsgs == {ScanMsg(KeyA, "anthropic", <<>>)}

CacheRegenMsgs == {GenerateMsg(KeyA, "anthropic", <<Item("A", TRUE, "high", TRUE)>>)}

InitCache ==
  /\ apiKey = <<>>
  /\ projectContext = <<>>
  /\ currentProvider = "anthropic"
  /\ cachedDesignSystem = extractDesignSystem(<<1>>)
  /\ cachedFrameData = extractFrameData(<<1>>)
  /\ cachedNodes = <<1>>
  /\ cachedScreenshots \in {<<>>, <<1>>}
  /\ selection \in Selections
  /\ selectionCount = Len(selection)
  /\ inv = [a \in Acts |-> IdleFrame]
  /\ hist = NoHist
  /\ ack = "none"
  /\ ncmd = 0
  /\ call = NoCall

NextCache ==
  \/ \E sel \in Selections : Select(sel)
  \/ \E msg \in CacheScanMsgs : ScanScreensCommand(1, msg)
  \/ ScanScreensDesignSystem(1)
  \/ \E j \in 1..BATCH_SIZE, o \in Outcomes : ScanScreensResponse(1, j, o)
  \/ \E ok \in BOOLEAN : ScanScreensCards(1, ok)
  \/ \E msg \in CacheRegenMsgs : GenerateCommand(1, msg)
  \/ \E ok \in BOOLEAN : GenerateCaptured(1, ok)
  \/ GenerateFonts(1)
  \/ \E o \in Outcomes, text \in SpecTexts : GenerateResponse(1, o, text)
  \/ \E o \in Outcomes, text \in SpecTexts : GenerateRetryResponse(1, o, text)
  \/ \E ok \in BOOLEAN : GenerateBuilt(1, ok)
  \/ \E ok \in BOOLEAN : GenerateRetryBuilt(1, ok)
  \/ \E ok \in BOOLEAN : GenerateDocFrame(1, ok)

SpecCache == InitCache /\ [][NextCache]_vars

\* ----------------------------------------------------- parseFlowSections
FlowKeyOrder ==
  <<"Flow Overview", "Entry Points", "Key Screens", "Decision Points",
    "Edge Cases Identified", "Recommendations">>

FlowKeys == {FlowKeyOrder[n] : n \in 1..Len(FlowKeyOrder)}

\* FLOW_SECTION_HEADERS: the key whose pattern matches the title, "" when none
FlowTitleKey(title) ==
  CASE title = "Flow Overview" -> "Flow Overview"
    [] title \in {"Entry Points", "Entry Point"} -> "Entry Points"
    [] title \in {"Key Screens", "Key Screen"} -> "Key Screens"
    [] title \in {"Decision Points", "Decision Point"} -> "Decision Points"
    [] title \in {"Edge Cases Identified", "Edge Cases", "Edge Case"}
         -> "Edge Cases Identified"
    [] title \in {"Recommendations", "Recommendation"} -> "Recommendations"
    [] OTHER -> ""

\* FLOW_SECTION_HEADERS.find(h => h.pattern.test(trimmed))
FlowSectionHeader(line) ==
  LET t == Trim(line) IN
  IF Len(t) >= 2 /\ t[1] = "#" /\ Len(DropBlanks(Tail(t))) = 1
    THEN FlowTitleKey(DropBlanks(Tail(t))[1])
    ELSE ""

\* replace(/\*\*/g, '')
RECURSIVE StripBold(_)
StripBold(s) ==
  IF s = <<>> THEN <<>>
  ELSE IF Head(s) = "**" THEN StripBold(Tail(s))
  ELSE <<Head(s)>> \o StripBold(Tail(s))

\* flush() of parseFlowSections
FlowFlush(sections, currentKey, currentLines) ==
  LET content == TrimWs(StripBold(StripLeadingMarks(TrimWs(JoinLines(currentLines)))))
  IN IF currentKey = "" \/ content = <<>> THEN sections
     ELSE [sections EXCEPT ![currentKey] = content]

RECURSIVE ScanFlowLines(_, _, _, _)
ScanFlowLines(lines, sections, currentKey, currentLines) ==
  IF lines = <<>> THEN FlowFlush(sections, currentKey, currentLines)
  ELSE LET matched == FlowSectionHeader(Head(lines)) IN
       IF matched # ""
         THEN ScanFlowLines(Tail(lines), FlowFlush(sections, currentKey, currentLines),
                            matched, <<>>)
       ELSE IF currentKey # ""
         THEN ScanFlowLines(Tail(lines), sections, currentKey,
                            Append(currentLines, Head(lines)))
       ELSE ScanFlowLines(Tail(lines), sections, currentKey, currentLines)

parseFlowSections(fullDoc) ==
  LET sections == ScanFlowLines(fullDoc, [k \in FlowKeys |-> <<>>], "", <<>>)
  IN [k \in FlowKeys |->
        TrimWs(StripMarksAfterFeed(StripBold(StripLeadingMarks(sections[k]))))]

\* createFlowDocCards: one card per title whose section is not empty
FlowCards(sections) ==
  LET Pick[n \in 0..Len(FlowKeyOrder)] ==
        IF n = 0 THEN <<>>
        ELSE IF sections[FlowKeyOrder[n]] = <<>> THEN Pick[n - 1]
        ELSE Append(Pick[n - 1], FlowKeyOrder[n])
  IN Pick[Len(FlowKeyOrder)]

\* the section headers the flow-analysis prompt asks for, in its order
PromptHeaders ==
  <<"Flow Overview", "Flow Steps", "Missing States Across the Flow",
    "Shared Design Tokens", "Accessibility Across the Flow">>

FlowBlocks ==
  << << <<"t">> >>,
     << <<"**", "t", "**">>, <<>>, <<"#", Blank, "u">> >> >>

RECURSIVE Headed(_, _, _)
Headed(titles, pick, n) ==
  IF n > Len(titles) THEN <<>>
  ELSE <<HeaderLine(titles[n])>> \o FlowBlocks[pick[n]] \o Headed(titles, pick, n + 1)

\* the flow text of a vendor: the sections of the prompt, or the sections
\* the parser knows
FlowDocs ==
  {lead \o Headed(PromptHeaders, pick, 1) :
     lead \in Leads, pick \in [1..Len(PromptHeaders) -> 1..Len(FlowBlocks)]}
  \cup
  {lead \o Headed(FlowKeyOrder, pick, 1) :
     lead \in Leads, pick \in [1..Len(FlowKeyOrder) -> 1..Len(FlowBlocks)]}

ParseFlowSections ==
  /\ Idle("parseFlowSections")
  /\ call' = [call EXCEPT !.returned = TRUE,
                          !.out = [sections |-> parseFlowSections(call.arg),
                                   cards |-> FlowCards(parseFlowSections(call.arg))]]
  /\ UNCHANGED <<session, caches, selection, selectionCount, inv, hist, ack, ncmd>>

InitFlowSections ==
  /\ Constructed
  /\ selection = <<1>>
  /\ call \in {Calling("parseFlowSections", d) : d \in FlowDocs}

SpecFlowSections == InitFlowSections /\ [][ParseFlowSections]_vars

\* ================================================================ claims
Range(seq) == {seq[n] : n \in 1..Len(seq)}

Count(seq, S) == Cardinality({n \in 1..Len(seq) : seq[n] \in S})

Scans == {"scan-screens", "scan-flow"}

\* C1: when one action (scan-screens, scan-flow or generate-missing-screens)
\* has run with no other command handled in the meantime, the stored apiKey,
\* projectContext and currentProvider are, once it has finished, what they
\* were before it started, whether it succeeded or failed.
C1_SessionRestored ==
  (hist.closed /\ hist.started = 1 /\ ~hist.other) => hist.end = hist.base

\* an action that overrode a stored key and provider with others has failed
\* and finished
C1_Witness ==
  /\ hist.closed /\ hist.started = 1 /\ ~hist.other
  /\ inv[1].pc = "done" /\ ~inv[1].rejected /\ inv[1].threw
  /\ hist.base.key # <<>>
  /\ inv[1].key # hist.base.key
  /\ inv[1].prov # hist.base.prov

\* C2, as the specification states it: when two or more actions have
\* overlapped and all of them have finished, the stored apiKey,
\* projectContext and currentProvider are what they were before the first of
\* them started.
C2_OverlapRestored ==
  (hist.closed /\ hist.started >= 2 /\ ~hist.setKey) => hist.end = hist.base

\* C3: a scan-screens or scan-flow command handled while nothing is selected
\* or no effective key is available sends exactly one error notification,
\* issues no request, returns at once, and leaves the stored session and
\* the cached scan data as they were.
C3_RejectedScan ==
  [][\A msg \in ActionMsgs :
       ( /\ ScanScreensCommand(1, msg) \/ ScanFlowCommand(1, msg)
         /\ selection = <<>> \/ EffectiveKey(msg.apiKey) = <<>> )
       => /\ inv'[1].sent = <<"error">>
          /\ inv'[1].reqs = <<>>
          /\ inv'[1].pc = "done"
          /\ UNCHANGED <<session, caches>>]_vars

\* a scan was turned down although a key was stored
C3_Witness ==
  /\ inv[1].kind \in Scans /\ inv[1].rejected
  /\ inv[1].sent = <<"error">>
  /\ apiKey # <<>>

\* the number of batches for n screens
Batches(n) == (n + 4) \div 5

\* C4: in a documentation action over N >= 1 screens in which every request
\* succeeds, ceil(N/5) batches are issued, each of 5 requests but possibly the
\* last, a pause of 2000 ms follows every batch but the last, and the N
\* results are stored in selection order whatever the order of arrival.
C4_Batches ==
  LET f == inv[1]
      N == Len(f.nodes)
      nb == Len(f.batches)
  IN
  (f.kind = "scan-screens" /\ ~f.rejected /\ f.pc # "idle"
     /\ \A m \in 1..Len(f.got) : f.got[m] = "ok")
  => /\ \A b \in 1..nb : f.batches[b] = IF b * 5 <= N THEN 5 ELSE N - (b - 1) * 5
     /\ \A b \in 1..Len(f.pauses) : f.pauses[b] = 2000
     /\ f.pc = "batch" => nb <= Batches(N) /\ Len(f.pauses) = nb - 1
     /\ f.pc = "pause" => nb < Batches(N) /\ Len(f.pauses) = nb
     /\ f.pc \in {"cards", "done"} =>
          /\ nb = Batches(N)
          /\ Len(f.pauses) = Batches(N) - 1
          /\ Len(f.reqs) = N
          /\ f.docs = [k \in 1..N |-> [name |-> f.nodes[k], content |-> f.nodes[k]]]

\* seven screens were documented in two batches, and the responses of the
\* second batch arrived in the reverse order
C4_Witness ==
  /\ inv[1].kind = "scan-screens" /\ inv[1].pc = "done" /\ ~inv[1].threw
  /\ Len(inv[1].nodes) = 7
  /\ inv[1].batches = <<5, 2>>
  /\ inv[1].arrival = <<2, 1>>
  /\ Len(inv[1].docs) = 7

Terminal == {"scan-complete", "error"}

\* C5: a scan-screens or scan-flow action that passes its preconditions
\* sends exactly one terminal notification: none while it runs, and once it
\* has finished scan-complete when it succeeded, error when a step failed,
\* never both and never neither.
C5_OneTerminal ==
  \A a \in Acts :
    LET f == inv[a] IN
    (f.kind \in Scans /\ ~f.rejected) =>
      IF f.pc = "done"
        THEN /\ Count(f.sent, Terminal) = 1
             /\ f.sent[Len(f.sent)] = IF f.threw THEN "error" ELSE "scan-complete"
        ELSE Count(f.sent, Terminal) = 0

\* a flow analysis failed at its last step, the missing-screen cards
C5_Witness ==
  /\ inv[1].kind = "scan-flow" /\ inv[1].pc = "done" /\ inv[1].threw
  /\ inv[1].got = <<"ok">>
  /\ "createMissingScreenCards" \in Range(inv[1].calls)
  /\ Count(inv[1].sent, {"progress"}) >= 2

\* C6, as the specification states it: a flow analysis that passes its
\* preconditions issues exactly one request; when the request succeeds
\* createFlowDocCards is called, and, unless a canvas call fails,
\* createMissingScreenCards is called exactly when the parsed list of missing
\* screens is not empty.
C6_FlowRendered ==
  \A a \in Acts :
    LET f == inv[a] IN
    (f.kind = "scan-flow" /\ ~f.rejected /\ f.pc = "done") =>
      /\ Len(f.reqs) = 1
      /\ f.got = <<"ok">> => "createFlowDocCards" \in Range(f.calls)
      /\ ~f.threw => ("createMissingScreenCards" \in Range(f.calls)
                        <=> Len(f.missingScreens) > 0)

\* C7: in the regeneration action at most two requests are issued for an
\* item, the second only when the first response did not parse into a visual
\* spec; when the second does not parse either the item is skipped with an
\* error notification, no frame is built for it, and the loop goes on to
\* the next item.
C7_RetryOnce ==
  \A a \in Acts :
    LET f == inv[a] IN
    (f.kind = "generate-missing-screens" /\ ~f.rejected) =>
      /\ \A n \in 1..Len(f.items) :
           /\ Cardinality({m \in 1..Len(f.reqs) : f.reqs[m].about = n}) <= 2
           /\ Cardinality({m \in 1..Len(f.reqs) :
                             f.reqs[m].about = n /\ f.reqs[m].kind = "retry"}) <= 1
      /\ \A m \in 1..Len(f.reqs) :
           f.reqs[m].kind = "retry" =>
             /\ m > 1
             /\ f.reqs[m - 1].kind = "regen"
             /\ f.reqs[m - 1].about = f.reqs[m].about
             /\ f.got[m - 1] = "ok:unparsed"
      /\ \A m \in 1..Len(f.got) :
           (f.reqs[m].kind = "regen" /\ f.got[m] = "ok:unparsed") =>
             (Len(f.reqs) > m /\ f.reqs[m + 1].kind = "retry")
      /\ \A m \in 1..Len(f.got) :
           (f.reqs[m].kind = "retry" /\ f.got[m] = "ok:unparsed") =>
             /\ f.reqs[m].about \in Range(f.skipped)
             /\ \A c \in 1..Len(f.createdFrames) : f.createdFrames[c].item # f.reqs[m].about
             /\ f.reqs[m].about < Len(f.items) => f.i >= f.reqs[m].about
      /\ Count(f.sent, {"error"}) = Len(f.skipped) + (IF f.threw THEN 1 ELSE 0)

\* the first of two items was skipped after two unparsed responses, and the
\* second was built
C7_Witness ==
  /\ inv[1].kind = "generate-missing-screens" /\ inv[1].pc = "done"
  /\ Len(inv[1].items) = 2
  /\ inv[1].skipped = <<1>>
  /\ Len(inv[1].createdFrames) = 1 /\ inv[1].createdFrames[1].item = 2
  /\ "screens-created" \in Range(inv[1].sent)

WellFormedItems(items) ==
  \A n \in 1..Len(items) : items[n].hasSeverity /\ items[n].hasComponents

\* C8, as the specification states it: in the regeneration action a failure
\* on one item (an HTTP error, a network error, an unparsed response, a
\* frame that cannot be built) is skipped: every item is processed, the
\* documentation frame is reached, and the action ends with screens-created.
C8_ItemFailureSkipped ==
  \A a \in Acts :
    LET f == inv[a] IN
    (f.kind = "generate-missing-screens" /\ ~f.rejected /\ f.pc = "done"
       /\ WellFormedItems(f.items)) =>
      /\ "createDocFrame" \in Range(f.calls)
      /\ f.docFrame => "screens-created" \in Range(f.sent)

\* C9, as the specification states it: a generate-missing-screens command
\* handled while no effective key is available sends an error notification
\* and issues no request.
C9_GenerateWithoutKey ==
  \A a \in Acts :
    LET f == inv[a] IN
    (f.kind = "generate-missing-screens" /\ f.pc = "done" /\ f.rejected
       /\ f.key = <<>> /\ Len(f.items) > 0) =>
      /\ "error" \in Range(f.sent)
      /\ f.reqs = <<>>

\* C10, as the specification states it: every missing-screen item that
\* reaches card rendering has the severity high, medium or low.
C10_SeverityEnumerated ==
  \A a \in Acts :
    \A n \in 1..Len(inv[a].missingRendered) :
      inv[a].missingRendered[n].severity \in Severities

\* C11, as the specification states it: the processing of the vendor text of
\* a flow-analysis response never throws, whatever the text.
C11_ExtractionNeverThrows ==
  call.fn = "runScanFlowWithEdgeCases" => ~call.threw

\* the text up to the first delimiter, the whole text when there is none
BeforeDelimiter(t) ==
  IF IndexOf(t, DELIM) = 0 THEN t ELSE SubSeq(t, 1, IndexOf(t, DELIM) - 1)

\* C12: the flow text returned by the edge-case extraction is the trimmed
\* text before the first occurrence of the delimiter, and the whole trimmed
\* text when the delimiter does not occur.
C12_FlowText ==
  (call.fn = "runScanFlowWithEdgeCases" /\ call.returned) =>
    call.out.flowText = Trim(BeforeDelimiter(call.arg))

\* a text with blanks around its prose and two delimiters was processed
C12_Witness ==
  /\ call.fn = "runScanFlowWithEdgeCases" /\ call.returned
  /\ Len(call.arg) > 0 /\ call.arg[1] = Blank
  /\ Cardinality({n \in 1..Len(call.arg) : call.arg[n] = DELIM}) = 2
  /\ call.out.flowText = <<"w">>

\* everything after the first delimiter
AfterDelimiter(t) == SubSeq(t, IndexOf(t, DELIM) + 1, Len(t))

\* the part between the first delimiter and the next one, or the end
SecondPart(t) == BeforeDelimiter(AfterDelimiter(t))

\* x holds, from its first "{" to its last "}", a JSON object whose
\* missing_screens member is a non-empty array
HoldsMissingScreens(x) ==
  LET lo == IndexOf(x, "{")
      hi == LastIndexOf(x, "}")
      parsed == JsonParse(SubSeq(x, lo, hi))
  IN /\ lo # 0 /\ hi > lo
     /\ parsed.ok
     /\ MissingScreensOf(parsed.member).isArray
     /\ MissingScreensOf(parsed.member).items # <<>>

BlankLine(l) == \A n \in 1..Len(l) : l[n] = Blank

\* the lines that follow line i of the document up to the next recognised
\* header
RECURSIVE Following(_, _)
Following(doc, i) ==
  IF i >= Len(doc) \/ SectionHeader(doc[i + 1]) # "" THEN <<>>
  ELSE <<doc[i + 1]>> \o Following(doc, i + 1)

\* the header of k does not occur, or only blank lines follow it
WithoutContent(doc, k) ==
  \A i \in 1..Len(doc) :
    SectionHeader(doc[i]) = k => \A l \in Range(Following(doc, i)) : BlankLine(l)

PreRegistered(k) ==
  IF k = "Link to Component Library" THEN LINK_DEFAULT
  ELSE IF k = "Attachments" THEN ATTACHMENTS_DEFAULT
  ELSE <<>>

RECURSIVE HeaderKeys(_)
HeaderKeys(doc) ==
  IF doc = <<>> THEN <<>>
  ELSE IF SectionHeader(Head(doc)) # "" THEN <<SectionHeader(Head(doc))>> \o HeaderKeys(Tail(doc))
  ELSE HeaderKeys(Tail(doc))

\* a line without the heading mark at its start and at its end
Unmarked(l) ==
  LET a == Trim(l)
      b == IF a # <<>> /\ a[1] = "#" THEN Trim(Tail(a)) ELSE a
  IN IF b # <<>> /\ b[Len(b)] = "#" THEN Trim(SubSeq(b, 1, Len(b) - 1)) ELSE b

\* the lines of a tuple of lines that hold text, without their marks
RECURSIVE TextLines(_)
TextLines(lines) ==
  IF lines = <<>> THEN <<>>
  ELSE IF Unmarked(Head(lines)) = <<>> THEN TextLines(Tail(lines))
  ELSE <<Unmarked(Head(lines))>> \o TextLines(Tail(lines))

\* the lines of a text
RECURSIVE LinesOf(_)
LinesOf(s) ==
  IF IndexOf(s, NL) = 0 THEN <<s>>
  ELSE <<SubSeq(s, 1, IndexOf(s, NL) - 1)>> \o LinesOf(SubSeq(s, IndexOf(s, NL) + 1, Len(s)))

\* the lines of a section of the result that hold text
RECURSIVE Held(_)
Held(lines) ==
  IF lines = <<>> THEN <<>>
  ELSE IF Trim(Head(lines)) = <<>> THEN Held(Tail(lines))
  ELSE <<Trim(Head(lines))>> \o Held(Tail(lines))

\* the index of the header of k in the document
HeaderIndex(doc, k) == CHOOSE i \in 1..Len(doc) : SectionHeader(doc[i]) = k

\* C15: for a text that holds all the section headers in order, each section
\* key holds exactly the text lines between its header and the next
\* recognised header, header lines excluded and heading marks stripped (its
\* default when there is none), so that no line is in two sections, and the
\* lines before the first header are in none.
C15_Sections ==
  (call.fn = "parseDocSections" /\ call.returned /\ HeaderKeys(call.arg) = KeyOrder) =>
    \A k \in SectionKeys :
      LET lines == TextLines(Following(call.arg, HeaderIndex(call.arg, k))) IN
      /\ lines # <<>> => Held(LinesOf(call.out[k])) = lines
      /\ lines = <<>> => call.out[k] = PreRegistered(k)
      /\ "w" \notin Range(call.out[k])
      /\ "#" \notin Range(call.out[k])

\* a document with lines before its first header, a section of one line and
\* a section of several lines with marks
C15_Witness ==
  /\ call.fn = "parseDocSections" /\ call.returned
  /\ HeaderKeys(call.arg) = KeyOrder
  /\ SectionHeader(call.arg[1]) = ""
  /\ call.out["Purpose"] = <<"t">>
  /\ Held(LinesOf(call.out["Use Cases"])) = << <<"u">>, <<"t">>, <<"Notes">> >>
  /\ call.out["Attachments"] = ATTACHMENTS_DEFAULT


\* the text without the white space around it, without a fence (and "json",
\* and white space) at its start and without a fence (and the white space
\* before it) at its end
Unfenced(t) ==
  LET a  == Trim(t)
      lo == IF a # <<>> /\ a[1] = FENCE
              THEN (IF Len(a) > 1 /\ a[2] = "json" THEN 3 ELSE 2) ELSE 1
      b  == TrimStart(SubSeq(a, lo, Len(a)))
  IN IF b # <<>> /\ b[Len(b)] = FENCE THEN TrimEnd(SubSeq(b, 1, Len(b) - 1)) ELSE b

\* the JSON object with a non-empty name and a numeric width and height
NamedAndSized(words) == DropBlanks(words) = <<"{", "spec:ok", "}">>

\* from the first "{" to the last "}" the text is such an object
HoldsScreenSpec(u) ==
  \E lo, hi \in 1..Len(u) :
    /\ lo < hi
    /\ u[lo] = "{" /\ \A n \in 1..(lo - 1) : u[n] # "{"
    /\ u[hi] = "}" /\ \A n \in (hi + 1)..Len(u) : u[n] # "}"
    /\ NamedAndSized(SubSeq(u, lo, hi))

\* C16: parseVisualScreenSpec returns a spec if and only if, once the fence
\* at the start and the fence at the end are stripped, the text from the
\* first "{" to the last "}" parses as a JSON object with a non-empty name
\* and a numeric width and height; in every other case it returns null, and
\* it never throws.
C16_VisualSpec ==
  (call.fn = "parseVisualScreenSpec") =>
    /\ ~call.threw
    /\ call.returned =>
         /\ call.out # "" <=> HoldsScreenSpec(Unfenced(call.arg))
         /\ call.out # "" => call.out = "spec:ok"

\* a fenced text with an accepted object was parsed
C16_Witness ==
  /\ call.fn = "parseVisualScreenSpec" /\ call.returned
  /\ call.out = "spec:ok"
  /\ Len(call.arg) > 1
  /\ call.arg[1] = FENCE /\ call.arg[2] = "json"
  /\ call.arg[Len(call.arg)] = FENCE

\* the message shown for the error of a response with this status
ShownFor(status) ==
  /\ call.fn = "callAI"
  /\ call.net.shown # <<>>
  /\ call.net.response # <<>>
  /\ call.net.response[1].status = status

\* C17: for the error the adapter raises for a response with status s that
\* is not 2xx, whatever its body text, getUserFriendlyError returns the
\* invalid-key message when s = 401, the rate-limit message when s = 429 and
\* the overloaded message when s is 500, 502, 503 or 529.
C17_StatusMapped ==
  /\ ShownFor(401) => call.net.shown[1].kind = "invalid-key"
  /\ ShownFor(429) => call.net.shown[1].kind = "rate-limit"
  /\ \A s \in {500, 502, 503, 529} : ShownFor(s) => call.net.shown[1].kind = "overloaded"

C19_SetApiKey ==
  [][\A msg \in SetKeyMsgs :
       SetApiKeyCommand(msg) =>
         /\ ack' \in {"api-key-valid", "api-key-error"}
         /\ ack' = "api-key-valid" <=>
              (Trim(msg.key) # <<>> /\ isValidApiKeyFormat(msg.key, msg.provider))
         /\ ack' = "api-key-valid" =>
              /\ apiKey' = Trim(msg.key)
              /\ currentProvider' = msg.provider
              /\ projectContext' = (IF msg.hasCtx THEN Trim(msg.projectContext) ELSE <<>>)
         /\ ack' = "api-key-error" =>
              /\ apiKey' = apiKey
              /\ currentProvider' = currentProvider
              /\ projectContext' = projectContext]_vars

\* a key of the wrong format was refused after a key had been stored, and
\* the stored session is still that of the first command
C19_Witness ==
  /\ ncmd = 2
  /\ ack = "api-key-error"
  /\ apiKey = KeyA
  /\ currentProvider = "anthropic"
  /\ projectContext = <<"ctx2">>
  /\ \A a \in Acts : inv[a] = IdleFrame


\* the request is a POST whose body is (or parses into) an object
PostedEnvelope ==
  /\ call.fn = "handler"
  /\ call.arg.method = "POST"
  /\ ~call.arg.isString \/ call.arg.parses
  /\ call.arg.payload.isObject

\* provider, apiKey and body are there, the provider is known, and google
\* comes with a model
ValidEnvelope(p) ==
  /\ p.provider \in Providers
  /\ p.apiKey # <<>>
  /\ p.body # NoMember
  /\ p.provider = "google" => p.model # NoMember

\* the vendor a URL belongs to
VendorOf(url) ==
  CASE url[1] = "https://api.anthropic.com/v1/messages" -> "anthropic"
    [] url[1] = "https://api.openai.com/v1/chat/completions" -> "openai"
    [] url[1] = "https://generativelanguage.googleapis.com/v1beta/models/" -> "google"
    [] OTHER -> ""

\* C20: for a POST with a valid envelope, exactly one upstream request is
\* made, to the selected vendor and with the envelope's body as its body,
\* and the relay's answer carries the upstream status and the upstream text
\* unchanged; an envelope that lacks provider, apiKey or body, names an
\* unknown provider, or names google without a model is answered with status
\* 400 and no upstream request is made.
C20_Relay ==
  PostedEnvelope =>
    LET p == call.arg.payload IN
    /\ Len(call.net.fetched) <= 1
    /\ (ValidEnvelope(p) /\ call.returned) =>
         /\ Len(call.net.fetched) = 1
         /\ VendorOf(call.net.fetched[1].to.url) = p.provider
         /\ DropBlanks(call.net.fetched[1].body) = <<"{", p.body, "}">>
         /\ call.net.response # <<>> =>
              /\ call.out.status = call.net.response[1].status
              /\ call.out.text = call.net.response[1].body
    /\ ~ValidEnvelope(p) =>
         /\ call.net.fetched = <<>>
         /\ call.returned => call.out.status = 400
    /\ ~call.threw

\* the answer 429 of Google was passed on for a valid envelope
C20_Witness ==
  /\ PostedEnvelope
  /\ call.returned
  /\ call.arg.payload.provider = "google"
  /\ call.arg.isString
  /\ Len(call.net.fetched) = 1
  /\ call.net.response = <<[status |-> 429, body |-> <<"w", Blank>>]>>
  /\ call.out.status = 429
  /\ call.out.text = <<"w", Blank>>

\* C21: the reference material a regeneration action uses derives from the
\* frames of the most recent scan action: once it has issued a request, the
\* screenshots it sends are those of the nodes of the last scan (or none,
\* when they could not be exported), never those of an earlier selection.
C21_ReferenceMaterial ==
  \A a \in Acts :
    (inv[a].kind = "generate-missing-screens" /\ inv[a].reqs # <<>> /\ cachedNodes # <<>>)
      => inv[a].screenshots \in {<<>>, cachedNodes}


\* the handler in frame a issues requests after its first batch
IssuesLaterBatch(a) ==
  /\ inv[a].kind = "scan-screens" /\ inv'[a].kind = "scan-screens"
  /\ Len(inv[a].reqs) > 0
  /\ Len(inv'[a].reqs) > Len(inv[a].reqs)

\* C22: within one documentation action the requests of the next batch are
\* issued only when every response of the batch before has been received
\* and the pause of 2000 ms after it has elapsed; at most 5 requests of the
\* action are in flight at any time.
C22_BatchesInOrder ==
  /\ [](\A a \in Acts :
          inv[a].kind = "scan-screens" => Len(inv[a].reqs) - Len(inv[a].got) <= 5)
  /\ [][\A a \in Acts :
          IssuesLaterBatch(a) =>
            /\ inv[a].pc = "pause"
            /\ inv[a].pending = {}
            /\ Len(inv[a].got) = Len(inv[a].reqs)
            /\ Len(inv[a].pauses) = Len(inv[a].batches)
            /\ \A n \in 1..Len(inv[a].pauses) : inv[a].pauses[n] = 2000
            /\ Len(inv'[a].reqs) - Len(inv[a].reqs) <= 5]_vars

\* the second batch of an action is in flight
C22_Witness ==
  /\ inv[1].kind = "scan-screens" /\ inv[1].pc = "batch"
  /\ Len(inv[1].batches) = 2
  /\ Len(inv[1].reqs) = Len(selection)
  /\ Len(inv[1].got) = 5
  /\ inv[1].pauses = <<2000>>

\* a request of the documentation action failed
BatchFailed(f) == f.kind = "scan-screens" /\ \E n \in 1..Len(f.got) : f.got[n] # "ok"

\* C23: when a request of a batch of a documentation action fails, no later
\* batch is issued, no documentation card is created for any screen of the
\* action, exactly one error notification is sent and no scan-complete
\* notification is sent.
C23_FailedBatch ==
  \A a \in Acts :
    BatchFailed(inv[a]) =>
      /\ inv[a].pc = "done"
      /\ Len(inv[a].got) > 5 * (Len(inv[a].batches) - 1)
      /\ Len(inv[a].reqs) <= 5 * Len(inv[a].batches)
      /\ inv[a].createdCards = <<>>
      /\ "createDocCardsForScreen" \notin Range(inv[a].calls)
      /\ Count(inv[a].sent, {"error"}) = 1
      /\ Count(inv[a].sent, {"scan-complete"}) = 0

\* a request of the second batch failed after a first batch of five results
C23_Witness ==
  /\ BatchFailed(inv[1])
  /\ Len(inv[1].batches) = 2
  /\ Len(inv[1].docs) = 5
  /\ Len(inv[1].got) = 6
  /\ inv[1].sent[Len(inv[1].sent)] = "error"


\* the titles of the lines of the document that are a heading of the prompt
RECURSIVE PromptHeadings(_)
PromptHeadings(doc) ==
  IF doc = <<>> THEN <<>>
  ELSE IF Len(Head(doc)) = 3 /\ Head(doc)[1] = "#" /\ Head(doc)[3] \in Range(PromptHeaders)
    THEN <<Head(doc)[3]>> \o PromptHeadings(Tail(doc))
  ELSE PromptHeadings(Tail(doc))

\* C24: every section header the flow-analysis prompt asks for is recognised
\* by the flow-section parser, so that a response that follows the prompt is
\* split into one section, and one card, per requested header.
C24_PromptHeaders ==
  (call.fn = "parseFlowSections" /\ call.returned /\ PromptHeadings(call.arg) = PromptHeaders)
    => /\ \A n \in 1..Len(PromptHeaders) : FlowSectionHeader(call.arg[
                 CHOOSE i \in 1..Len(call.arg) :
                   Len(call.arg[i]) = 3 /\ call.arg[i][3] = PromptHeaders[n]]) # ""
       /\ Cardinality({k \in DOMAIN call.out.sections : call.out.sections[k] # <<>>})
            = Len(PromptHeaders)
       /\ Len(call.out.cards) = Len(PromptHeaders)

\* C25: every vendor request of an action carries the API key, the provider
\* and the project context of that action's own command, whichever command
\* is handled between the command and the request.
C25_OwnCredentials ==
  \A a \in Acts : \A n \in 1..Len(inv[a].reqs) :
    /\ inv[a].reqs[n].key = inv[a].key
    /\ inv[a].reqs[n].prov = inv[a].prov
    /\ inv[a].reqs[n].ctx = inv[a].ctx

\* C26: the credentials stored by a set-api-key command acknowledged with
\* api-key-valid while an action is in flight are still the stored session
\* when that action has completed: the step that completes the action
\* leaves the stored session as the command left it.
C26_SetKeyStands ==
  [][\A a \in Acts :
       (/\ InFlight(a)
        /\ inv'[a].pc = "done"
        /\ \A b \in Acts : b # a => ~InFlight(b)
        /\ hist.setKey
        /\ ack = "api-key-valid")
         => /\ apiKey' = apiKey
            /\ currentProvider' = currentProvider
            /\ projectContext' = projectContext]_vars

\* C27: with the commands of one panel only, at most one action is in flight
\* on the main thread: the panel leaves its busy state, and enables its
\* buttons again, only after the action it started has finished.
C27_OneInFlight ==
  /\ Cardinality({a \in Acts : InFlight(a)}) <= 1
  /\ \A a \in Acts : Answered(inv[a]) => ~InFlight(a)

C29_CachesAgree ==
  \/ cachedDesignSystem = <<>> /\ cachedFrameData = <<>> /\ cachedNodes = <<>>
  \/ /\ cachedNodes # <<>>
     /\ cachedDesignSystem = extractDesignSystem(cachedNodes)
     /\ cachedFrameData = extractFrameData(cachedNodes)
     /\ cachedNodes \in ScansSelections

\* two scans of different selections overlap, and the one started first
\* cached last
C29_Witness ==
  /\ InFlight(1) /\ InFlight(2)
  /\ inv[1].kind = "scan-screens" /\ inv[2].kind = "scan-flow"
  /\ inv[1].nodes = <<1>> /\ inv[2].nodes = <<2, 1>>
  /\ inv[1].pc # "ds" /\ inv[2].pc # "ds"
  /\ cachedNodes = <<1>>

\* C30: in the regeneration action the retry request for an item is the
\* item's first request again (the same call, prompt and attachments), with
\* screenshots and in the text-only fallback, and a screen built from the
\* retry response is added to the created frames and inspected by the
\* validator like one built from the first response.
C30_RetryAsFirst ==
  \A a \in Acts :
    inv[a].kind = "generate-missing-screens" =>
      /\ \A m \in 1..Len(inv[a].reqs) :
           inv[a].reqs[m].kind = "retry" =>
             /\ m > 1
             /\ inv[a].reqs[m] = [inv[a].reqs[m - 1] EXCEPT !.kind = "retry"]
      /\ \A c \in 1..Len(inv[a].createdFrames) :
           \E v \in 1..Len(inv[a].validated) :
             inv[a].validated[v] = inv[a].createdFrames[c].item


====
